---- MODULE Spec2Model ----
(***************************************************************************)
(* The linear forecasters of timeseries-lab (AR, MA, ARMA, ARIMA) and      *)
(* their numeric core, as a state machine.                                 *)
(*                                                                         *)
(* Numbers are exact rationals <<n, d>> (d > 0, lowest terms): the model   *)
(* follows the arithmetic of the code, not IEEE-754 rounding.              *)
(* An optional value (a JS value that may be undefined/null) is a sequence *)
(* of length 0 (absent) or 1 (present).                                    *)
(* A time series is the sequence of its points [t, x]; timeUnit and        *)
(* tickDuration are copied around by the code and never read by it.        *)
(***************************************************************************)
EXTENDS Integers, Sequences, FiniteSets, TLC

(***************************************************************************)
(* Bounds                                                                  *)
(***************************************************************************)
MaxLen == 3
MaxOps == 2
MaxHorizon == 2
MaxData == 4
MaxD == 3
MaxTime == 8
MaxCalls == 3

(***************************************************************************)
(* Rational arithmetic                                                     *)
(***************************************************************************)
Abs(x) == IF x < 0 THEN -x ELSE x

RECURSIVE Gcd(_, _)
Gcd(a, b) == IF b = 0 THEN a ELSE Gcd(b, a % b)

\* the fraction n/d in lowest terms with a positive denominator
QOver(n, d, g) ==
  IF d < 0 THEN <<(-n) \div g, (-d) \div g>> ELSE <<n \div g, d \div g>>
Q(n, d) == QOver(n, d, Gcd(Abs(n), Abs(d)))

R(k) == <<k, 1>>
Zero == R(0)
\* sums over the least common denominator and products cancelled crosswise keep
\* the intermediate integers small
RAddOver(a, b, g) ==
  Q(a[1] * (b[2] \div g) + b[1] * (a[2] \div g), (a[2] \div g) * b[2])
RAdd(a, b) == RAddOver(a, b, Gcd(a[2], b[2]))
RNeg(a) == <<-a[1], a[2]>>
RSub(a, b) == RAdd(a, RNeg(b))
RMulOver(a, b, g1, g2) ==
  <<(a[1] \div g1) * (b[1] \div g2), (a[2] \div g2) * (b[2] \div g1)>>
RMul(a, b) == RMulOver(a, b, Gcd(Abs(a[1]), b[2]), Gcd(Abs(b[1]), a[2]))
RDiv(a, b) == RMul(a, IF b[1] < 0 THEN <<-b[2], -b[1]>> ELSE <<b[2], b[1]>>)
RAbs(a) == <<Abs(a[1]), a[2]>>
RLess(a, b) == a[1] * b[2] < b[1] * a[2]

(***************************************************************************)
(* Optional values and JS array helpers                                    *)
(***************************************************************************)
None == <<>>
Some(v) == <<v>>
IsSome(o) == Len(o) = 1
Get(o) == o[1]
\* a ?? b
OrElse(o, dflt) == IF IsSome(o) THEN Get(o) ELSE dflt
\* {...old, ...new} for one field whose key is absent from new when undefined
Merge(old, new) == IF IsSome(new) THEN new ELSE old

\* new Array(n).fill(v)
Fill(n, v) == [i \in 1..n |-> v]
Reverse(s) == [i \in 1..Len(s) |-> s[Len(s) + 1 - i]]
\* s.slice(-n): -0 is 0, so slice(-0) is the whole array
SliceLast(s, n) ==
  IF n = 0 \/ n >= Len(s) THEN s ELSE SubSeq(s, Len(s) - n + 1, Len(s))
\* s.slice(a, b) for 0 <= a
Slice(s, a, b) ==
  IF a >= b \/ a >= Len(s) THEN <<>>
  ELSE SubSeq(s, a + 1, IF b > Len(s) THEN Len(s) ELSE b)
\* s.pop() leaves the front, s.shift() leaves the tail
Front(s) == IF Len(s) = 0 THEN s ELSE SubSeq(s, 1, Len(s) - 1)
Shift(s) == IF Len(s) = 0 THEN s ELSE Tail(s)
\* left-pad with zeros up to length n (while (s.length < n) s.unshift(0))
PadLeft(s, n) == IF Len(s) < n THEN Fill(n - Len(s), Zero) \o s ELSE s
PadRight(s, n) == IF Len(s) < n THEN s \o Fill(n - Len(s), Zero) ELSE s

Xs(ts) == [i \in 1..Len(ts) |-> ts[i].x]

RECURSIVE SumTo(_, _)
SumTo(s, n) == IF n = 0 THEN Zero ELSE RAdd(SumTo(s, n - 1), s[n])
Sum(s) == SumTo(s, Len(s))

(***************************************************************************)
(* lib/utils/math.ts                                                       *)
(***************************************************************************)
mean(data) == IF Len(data) = 0 THEN Zero ELSE RDiv(Sum(data), R(Len(data)))

Centered(data, m) == [i \in 1..Len(data) |-> RSub(data[i], m)]

\* the sum of the lagged products about the mean m, over n
autocovarianceAbout(data, lag, m) ==
  RDiv(Sum([i \in 1..(Len(data) - lag) |->
              RMul(RSub(data[i], m), RSub(data[i + lag], m))]),
       R(Len(data)))
autocovariance(data, lag) ==
  IF lag < 0 \/ lag >= Len(data) THEN Zero
  ELSE autocovarianceAbout(data, lag, mean(data))

predictAR(history, coefficients) ==
  IF Len(history) # Len(coefficients) THEN Zero
  ELSE Sum([i \in 1..Len(coefficients) |->
              RMul(coefficients[i], history[Len(coefficients) + 1 - i])])

\* a prediction that pairs theta_1 with the oldest error of the window
predictMAOldestFirst(errors, coefficients) ==
  IF Len(errors) < Len(coefficients) THEN Zero
  ELSE Sum([i \in 1..Len(coefficients) |->
              RMul(coefficients[i], errors[Len(errors) + 1 - i])])

predictMA(errors, coefficients) ==
  IF Len(errors) < Len(coefficients) THEN Zero
  ELSE Sum([i \in 1..Len(coefficients) |-> RMul(coefficients[i], errors[i])])

Tenth == Q(1, 10)

estimateMACoefficients(data, q, errors) ==
  IF q = 0 THEN <<>> ELSE Fill(q, Tenth)

\* Gaussian elimination with partial pivoting on the augmented matrix [R | r]
RECURSIVE PivotRow(_, _, _, _, _)
PivotRow(A, i, k, best, p) ==
  IF k > p THEN best
  ELSE PivotRow(A, i, k + 1,
                IF RLess(RAbs(A[best][i]), RAbs(A[k][i])) THEN k ELSE best, p)

SwapRows(A, i, j) ==
  [k \in 1..Len(A) |-> IF k = i THEN A[j] ELSE IF k = j THEN A[i] ELSE A[k]]

RECURSIVE GaussFrom(_, _, _)
\* rowI, row i divided by the pivot, is eliminated from the other rows
GaussEliminate(B, rowI, i, p) ==
  GaussFrom([k \in 1..p |->
               IF k = i THEN rowI
               ELSE [j \in 1..(p + 1) |->
                       IF j >= i THEN RSub(B[k][j], RMul(B[k][i], rowI[j]))
                       ELSE B[k][j]]],
            i + 1, p)
\* B: the matrix with the pivot row swapped into row i
GaussNormalize(B, i, p) ==
  IF B[i][i] = Zero THEN Fill(p, Zero)
  ELSE GaussEliminate(B, [j \in 1..(p + 1) |->
                            IF j >= i THEN RDiv(B[i][j], B[i][i]) ELSE B[i][j]],
                      i, p)
GaussFrom(A, i, p) ==
  IF i > p THEN [k \in 1..p |-> A[k][p + 1]]
  ELSE GaussNormalize(SwapRows(A, i, PivotRow(A, i, i + 1, i, p)), i, p)

\* Cramer's rule for p = 2, det being the determinant of RR
SolveYuleWalker2(RR, r, det) ==
  IF det = Zero THEN <<Zero, Zero>>
  ELSE << RDiv(RSub(RMul(r[1], RR[2][2]), RMul(r[2], RR[1][2])), det),
          RDiv(RSub(RMul(r[2], RR[1][1]), RMul(r[1], RR[2][1])), det) >>
\* RR: the autocovariance matrix, r: the autocovariance vector
SolveYuleWalker(RR, r, p) ==
  IF p = 1
  THEN IF RR[1][1] = Zero THEN <<Zero>> ELSE <<RDiv(r[1], RR[1][1])>>
  ELSE IF p = 2
  THEN SolveYuleWalker2(RR, r,
                        RSub(RMul(RR[1][1], RR[2][2]), RMul(RR[1][2], RR[2][1])))
  ELSE GaussFrom([i \in 1..p |-> RR[i] \o <<r[i]>>], 1, p)
\* the autocovariances at lags 0..p
Autocovariances(data, p) == [k \in 1..(p + 1) |-> autocovariance(data, k - 1)]
YuleWalker(acov, p) ==
  SolveYuleWalker([i \in 1..p |-> [j \in 1..p |-> acov[Abs(i - j) + 1]]],
                  [i \in 1..p |-> acov[i + 1]], p)
\* an estimate without the fallback for short data
estimateARUnchecked(data, p) ==
  IF p = 0 \/ Len(data) <= p THEN <<>>
  ELSE YuleWalker(Autocovariances(data, p), p)
estimateARCoefficients(data, p) ==
  IF p = 0 THEN <<>>
  ELSE IF Len(data) <= p THEN Fill(p, Zero)
  ELSE YuleWalker(Autocovariances(data, p), p)

\* estimateARMACoefficients: AR by Yule-Walker, MA by the placeholder (the
\* residuals it computes in between only feed the placeholder, which ignores them)
estimateARMACoefficients(data, p, q) ==
  [arCoefficients |-> IF p > 0 THEN estimateARCoefficients(data, p) ELSE <<>>,
   maCoefficients |-> IF q > 0 THEN estimateMACoefficients(data, q, <<>>) ELSE <<>>]

(***************************************************************************)
(* lib/forecasters/ARForecaster.ts                                         *)
(* record: ts, p, pcoef (params.coefficients), coefficients                *)
(***************************************************************************)
\* a forecast call's result: the object after the call and the values returned
Ret(m, vals) == [m |-> m, vals |-> vals, raised |-> FALSE]

\* an estimation that leaves the stored coefficients as they are
AR_keepCoefficients(m) == m

AR_estimateCoefficients(m) ==
  IF Len(m.ts) <= m.p
  THEN [m EXCEPT !.coefficients = Fill(m.p, Zero)]
  ELSE [m EXCEPT !.coefficients = estimateARCoefficients(Xs(m.ts), m.p)]

AR_new(ts, p, pcoef) ==
  LET m0 == [ts |-> ts, p |-> p, pcoef |-> pcoef, coefficients |-> OrElse(pcoef, <<>>)]
  IN  IF Len(ts) > p /\ ~IsSome(pcoef) THEN AR_estimateCoefficients(m0) ELSE m0

AR_updateTimeSeries(m, ts) ==
  LET m1 == [m EXCEPT !.ts = ts]
  IN  IF Len(ts) > m.p /\ ~IsSome(m.pcoef) THEN AR_estimateCoefficients(m1)
      ELSE IF Len(ts) <= m.p /\ ~IsSome(m.pcoef)
      THEN [m1 EXCEPT !.coefficients = Fill(m.p, Zero)]
      ELSE m1

\* a forecast loop that never feeds a step back into the history
AR_stepsFrozen(history, coefficients, n) ==
  Fill(n, predictAR(history, coefficients))

RECURSIVE AR_steps(_, _, _)
AR_push(history, coefficients, n, nextForecast) ==
  <<nextForecast>> \o
  AR_steps(Append(Shift(history), nextForecast), coefficients, n - 1)
AR_steps(history, coefficients, n) ==
  IF n = 0 THEN <<>>
  ELSE AR_push(history, coefficients, n, predictAR(history, coefficients))

\* a forecast that shifts the held series itself instead of a copy of it
AR_predictInPlace(m1, horizon) ==
  Ret([m1 EXCEPT !.ts = IF horizon > 0 /\ Len(@) > 0 THEN Shift(@) ELSE @],
      Fill(horizon, Zero))
\* m1: the forecaster after the attempt to re-estimate
AR_predict(m1, horizon) ==
  IF Len(m1.coefficients) # m1.p THEN Ret(m1, Fill(horizon, Zero))
  ELSE Ret(m1, AR_steps(SliceLast(Xs(m1.ts), m1.p), m1.coefficients, horizon))
AR_forecast(m, horizon) ==
  IF Len(m.ts) < m.p THEN Ret(m, Fill(horizon, Zero))
  ELSE AR_predict(IF Len(m.coefficients) # m.p /\ ~IsSome(m.pcoef)
                  THEN AR_estimateCoefficients(m) ELSE m,
                  horizon)

\* np: [p, coefficients], each optional
AR_updateParams(m, np) ==
  LET p1 == OrElse(np.p, m.p)
      pc1 == Merge(m.pcoef, np.coefficients)
      m1 == [m EXCEPT !.p = p1, !.pcoef = pc1]
  IN  IF (IsSome(np.p) /\ Get(np.p) # m.p) \/ IsSome(np.coefficients)
      THEN IF Len(m.ts) > p1 /\ ~IsSome(pc1)
           THEN AR_estimateCoefficients([m1 EXCEPT !.coefficients = <<>>])
           ELSE [m1 EXCEPT !.coefficients = OrElse(pc1, Fill(p1, Zero))]
      ELSE m1

(***************************************************************************)
(* lib/forecasters/MAForecaster.ts                                         *)
(* record: ts, q, pcoef (params.coefficients), perr (params.errors),       *)
(* coefficients, errors, seriesMean, and alias: whether this.errors is the *)
(* very array params.errors refers to (the code assigns the reference and  *)
(* later pushes, shifts and unshifts in place).                            *)
(***************************************************************************)
\* an in-place change of this.errors (push, shift, unshift)
InPlace(m, e) ==
  [m EXCEPT !.errors = e, !.perr = IF m.alias THEN Some(e) ELSE @]
\* this.errors = <a new array>
Fresh(m, e) == [m EXCEPT !.errors = e, !.alias = FALSE]

\* initialize(), the part after the mean: coefficients, then the errors padded
MA_padErrors(m2) ==
  IF Len(m2.errors) < m2.q
  THEN Fresh(m2, Fill(m2.q - Len(m2.errors), Zero) \o m2.errors)
  ELSE m2
MA_setCoefficients(m1) ==
  MA_padErrors(
    IF ~IsSome(m1.pcoef) /\ m1.q > 0 /\ Len(m1.ts) > m1.q
    THEN [m1 EXCEPT !.coefficients =
             estimateMACoefficients(Centered(Xs(m1.ts), m1.seriesMean),
                                    m1.q, m1.errors)]
    ELSE IF ~IsSome(m1.pcoef) /\ m1.q > 0
    THEN [m1 EXCEPT !.coefficients = Fill(m1.q, Tenth)]
    ELSE m1)
MA_initialize(m) == MA_setCoefficients([m EXCEPT !.seriesMean = mean(Xs(m.ts))])

MA_new(ts, q, pcoef, perr) ==
  LET m0 == [ts |-> ts, q |-> q, pcoef |-> pcoef, perr |-> perr,
             coefficients |-> OrElse(pcoef, <<>>),
             errors |-> OrElse(perr, <<>>), alias |-> IsSome(perr),
             seriesMean |-> Zero]
  IN  IF Len(ts) > 0 THEN MA_initialize(m0) ELSE m0

MA_calculateForecastForErrorUpdate(m) ==
  IF Len(m.coefficients) = 0 \/ m.q = 0 THEN Zero
  ELSE IF Len(m.errors) < m.q THEN Zero
  ELSE predictMA(Reverse(SliceLast(m.errors, m.q)), m.coefficients)

\* updateAndGetPastErrors(newDataPoint): the object after the call
MA_pushError(m, pushed) ==
  InPlace(m, IF Len(pushed) > m.q /\ m.q > 0 THEN Shift(pushed) ELSE pushed)
MA_observe(m, x) ==
  IF Len(m.ts) > 0
  THEN MA_pushError(m, Append(m.errors,
                              RSub(RSub(x, m.seriesMean),
                                   MA_calculateForecastForErrorUpdate(m))))
  ELSE m

\* updateAndGetPastErrors(): the value returned, e_{t-1} first
MA_pastErrors(m) == Reverse(SliceLast(PadLeft(m.errors, m.q), m.q))

RECURSIVE MA_replay(_, _, _)
MA_replay(m, i, n) ==
  IF i > n THEN m ELSE MA_replay(MA_observe(m, m.ts[i].x), i + 1, n)

\* m1: series and mean replaced
MA_update(m1, oldLength) ==
  IF Len(m1.ts) > oldLength /\ oldLength > 0
  THEN MA_replay(m1, oldLength + 1, Len(m1.ts))
  ELSE IF Len(m1.ts) > 0
          /\ (Len(m1.coefficients) # m1.q \/ Len(m1.errors) < m1.q)
  THEN MA_initialize(m1)
  ELSE m1
MA_updateTimeSeries(m, ts) ==
  MA_update([m EXCEPT !.ts = ts, !.seriesMean = mean(Xs(ts))], Len(m.ts))

\* a forecast loop that never shifts the error window
MA_stepsUnshifted(currentErrors, coefficients, mu, n) ==
  Fill(n, RAdd(predictMA(currentErrors, coefficients), mu))

RECURSIVE MA_steps(_, _, _, _)
MA_steps(currentErrors, coefficients, mu, n) ==
  IF n = 0 THEN <<>>
  ELSE <<RAdd(predictMA(currentErrors, coefficients), mu)>> \o
       MA_steps(<<Zero>> \o Front(currentErrors), coefficients, mu, n - 1)

\* a forecast that zeroes the stored errors instead of a copy of them
MA_predictInPlace(m1, horizon) ==
  Ret(InPlace(m1, IF horizon > 0 THEN Fill(Len(m1.errors), Zero) ELSE m1.errors),
      Fill(horizon, m1.seriesMean))
\* m1: the forecaster after the attempt to initialize
MA_predict(m1, horizon) ==
  IF Len(m1.coefficients) # m1.q
  THEN Ret(m1, Fill(horizon, m1.seriesMean))
  ELSE Ret(m1, MA_steps(MA_pastErrors(m1), m1.coefficients, m1.seriesMean, horizon))
\* a forecast whose values depend on the horizon asked for
MA_forecastByHorizon(m, horizon) == Ret(m, Fill(horizon, R(horizon)))
MA_forecast(m, horizon) ==
  IF m.q = 0 THEN Ret(m, Fill(horizon, m.seriesMean))
  ELSE MA_predict(IF Len(m.coefficients) # m.q /\ ~IsSome(m.pcoef)
                  THEN MA_initialize(m) ELSE m,
                  horizon)

\* np: [q, coefficients, errors], each optional
\* the errors branch: this.errors = newParams.errors, then pad, truncate
MA_truncateErrors(m4) ==
  IF Len(m4.errors) > m4.q THEN Fresh(m4, SliceLast(m4.errors, m4.q)) ELSE m4
MA_replaceErrors(m3) ==
  IF m3.q = 0 THEN Fresh(m3, <<>>)
  ELSE MA_truncateErrors(InPlace(m3, PadLeft(m3.errors, m3.q)))
\* q unchanged: coefficients (in m2 already) and errors are replaced one by one
MA_replace(m2, np) ==
  IF IsSome(np.errors)
  THEN MA_replaceErrors([m2 EXCEPT !.errors = Get(np.errors), !.alias = TRUE])
  ELSE IF IsSome(np.q) /\ Get(np.q) = 0
  THEN Fresh(m2, <<>>)
  ELSE m2
\* m1: params merged, q being the order before the call
MA_applyParams(m1, np, q) ==
  IF IsSome(np.q) /\ Get(np.q) # q
  THEN MA_initialize([m1 EXCEPT !.coefficients = OrElse(m1.pcoef, <<>>),
                                !.errors = OrElse(m1.perr, <<>>),
                                !.alias = IsSome(m1.perr)])
  ELSE MA_replace(IF IsSome(np.coefficients)
                  THEN [m1 EXCEPT !.coefficients = Get(np.coefficients)]
                  ELSE m1,
                  np)
\* a caller's new errors array replaces the reference params.errors held
MA_updateParams(m, np) ==
  MA_applyParams([m EXCEPT !.q = OrElse(np.q, @),
                           !.pcoef = Merge(@, np.coefficients),
                           !.perr = Merge(@, np.errors),
                           !.alias = IF IsSome(np.errors) THEN FALSE ELSE @],
                 np, m.q)

(***************************************************************************)
(* ARMAForecaster (src/unnamed/part_005)                                   *)
(* record: ts, p, q, pcoefs (params.coefficients), par, pma                *)
(* (params.arCoefficients, params.maCoefficients), perr (params.errors),   *)
(* arCoefficients, maCoefficients, errors, alias, seriesMean               *)
(***************************************************************************)
\* "Ensure correct lengths if estimation failed or p/q is 0"
ARMA_ensureLengths(m2) ==
  [m2 EXCEPT
     !.arCoefficients = IF m2.p > 0 /\ Len(@) # m2.p THEN Fill(m2.p, Zero) ELSE @,
     !.maCoefficients = IF m2.q > 0 /\ Len(@) # m2.q THEN Fill(m2.q, Tenth) ELSE @]
\* est: what estimateARMACoefficients returned
ARMA_takeEstimate(m, est) ==
  ARMA_ensureLengths(
    [m EXCEPT
       !.arCoefficients =
          IF ~IsSome(m.par) /\ m.p > 0 THEN est.arCoefficients
          ELSE IF m.p > 0 /\ Len(@) # m.p THEN est.arCoefficients
          ELSE @,
       !.maCoefficients =
          IF ~IsSome(m.pma) /\ m.q > 0 THEN est.maCoefficients
          ELSE IF m.q > 0 /\ Len(@) # m.q THEN est.maCoefficients
          ELSE @])
ARMA_estimateLocalCoefficients(m, centeredSeries) ==
  IF Len(centeredSeries) = 0
  THEN [m EXCEPT !.arCoefficients = IF m.p > 0 THEN Fill(m.p, Zero) ELSE @,
                 !.maCoefficients = IF m.q > 0 THEN Fill(m.q, Tenth) ELSE @]
  ELSE ARMA_takeEstimate(m, estimateARMACoefficients(centeredSeries, m.p, m.q))

\* the errors array left as long as it is
ARMA_keepErrors(m3) == m3
\* "Ensure errors array is correctly sized, truncating if necessary"
ARMA_truncateErrors(m3) ==
  IF Len(m3.errors) > m3.q /\ m3.q > 0
  THEN Fresh(m3, SliceLast(m3.errors, m3.q))
  ELSE IF m3.q = 0 THEN Fresh(m3, <<>>)
  ELSE m3
\* "Initialize MA errors"
ARMA_padErrors(m2) ==
  ARMA_truncateErrors(
    IF Len(m2.errors) < m2.q /\ m2.q > 0
    THEN Fresh(m2, Fill(m2.q - Len(m2.errors), Zero) \o m2.errors)
    ELSE m2)
\* "Coefficient Estimation", m1.seriesMean being the mean of the series
ARMA_setCoefficients(m1) ==
  ARMA_padErrors(
    IF IsSome(m1.par) /\ IsSome(m1.pma)
    THEN [m1 EXCEPT !.arCoefficients = Get(m1.par),
                    !.maCoefficients = Get(m1.pma)]
    ELSE IF IsSome(m1.pcoefs) /\ Len(Get(m1.pcoefs)) >= m1.p + m1.q
    THEN [m1 EXCEPT
            !.arCoefficients = Slice(Get(m1.pcoefs), 0, m1.p),
            !.maCoefficients = Slice(Get(m1.pcoefs), m1.p, m1.p + m1.q)]
    ELSE ARMA_estimateLocalCoefficients(m1, Centered(Xs(m1.ts), m1.seriesMean)))
ARMA_initialize(m) ==
  ARMA_setCoefficients([m EXCEPT !.seriesMean = mean(Xs(m.ts))])

\* params: [p, q, coefficients, arCoefficients, maCoefficients, errors];
\* p and q numbers (the constructor's ?? 0 applied), the others optional
ARMA_new(ts, params) ==
  LET m0 == [ts |-> ts, p |-> params.p, q |-> params.q,
             pcoefs |-> params.coefficients,
             par |-> params.arCoefficients, pma |-> params.maCoefficients,
             perr |-> params.errors,
             arCoefficients |-> OrElse(params.arCoefficients, <<>>),
             maCoefficients |-> OrElse(params.maCoefficients, <<>>),
             errors |-> OrElse(params.errors, <<>>),
             alias |-> IsSome(params.errors),
             seriesMean |-> Zero]
  IN  IF Len(ts) > 0 THEN ARMA_initialize(m0) ELSE m0

ARMA_calculateSingleStepForecast(m, history, currentMAErrors) ==
  RAdd(IF m.p > 0 /\ Len(m.arCoefficients) = m.p /\ Len(history) >= m.p
       THEN predictAR(SliceLast(history, m.p), m.arCoefficients)
       ELSE Zero,
       IF m.q > 0 /\ Len(m.maCoefficients) = m.q /\ Len(currentMAErrors) >= m.q
       THEN predictMA(currentMAErrors, m.maCoefficients)
       ELSE Zero)

\* the loop body of updateTimeSeries for the point at (0-based) pointIndex
ARMA_pushError(m, pushed) ==
  InPlace(m, IF Len(pushed) > m.q THEN Shift(pushed) ELSE pushed)
ARMA_observe(m, centeredSeries, pointIndex) ==
  ARMA_pushError(m, Append(m.errors,
    IF pointIndex < m.p THEN centeredSeries[pointIndex + 1]
    ELSE RSub(centeredSeries[pointIndex + 1],
              ARMA_calculateSingleStepForecast(
                m, Slice(centeredSeries, pointIndex - m.p, pointIndex),
                Reverse(SliceLast(m.errors, m.q))))))

RECURSIVE ARMA_replay(_, _, _, _)
ARMA_replay(m, centeredSeries, pointIndex, n) ==
  IF pointIndex >= n THEN m
  ELSE ARMA_replay(ARMA_observe(m, centeredSeries, pointIndex),
                   centeredSeries, pointIndex + 1, n)

\* m2: series and mean replaced
ARMA_update(m2, oldLength) ==
  IF Len(m2.ts) > oldLength /\ oldLength > 0 /\ m2.q > 0
  THEN ARMA_replay(m2, Centered(Xs(m2.ts), m2.seriesMean), oldLength, Len(m2.ts))
  ELSE IF (Len(m2.arCoefficients) # m2.p \/ Len(m2.maCoefficients) # m2.q)
          /\ (~IsSome(m2.par) \/ ~IsSome(m2.pma))
  THEN ARMA_initialize(m2)
  ELSE IF m2.q > 0 /\ Len(m2.errors) < m2.q
  THEN Fresh(m2, Fill(m2.q - Len(m2.errors), Zero) \o m2.errors)
  ELSE m2
ARMA_updateTimeSeries(m, ts) ==
  IF Len(ts) = 0
  THEN Fresh([m EXCEPT !.ts = ts, !.seriesMean = Zero], Fill(m.q, Zero))
  ELSE ARMA_update([m EXCEPT !.ts = ts, !.seriesMean = mean(Xs(ts))], Len(m.ts))

RECURSIVE ARMA_steps(_, _, _, _)
ARMA_push(m, currentHistory, currentMAErrors, n, forecastValue) ==
  <<RAdd(forecastValue, m.seriesMean)>> \o
  ARMA_steps(m,
             IF m.p > 0 THEN Append(Shift(currentHistory), forecastValue)
             ELSE currentHistory,
             IF m.q > 0 THEN <<Zero>> \o Front(currentMAErrors)
             ELSE currentMAErrors,
             n - 1)
ARMA_steps(m, currentHistory, currentMAErrors, n) ==
  IF n = 0 THEN <<>>
  ELSE ARMA_push(m, currentHistory, currentMAErrors, n,
                 RAdd(IF m.p > 0 THEN predictAR(currentHistory, m.arCoefficients)
                      ELSE Zero,
                      IF m.q > 0 THEN predictMA(currentMAErrors, m.maCoefficients)
                      ELSE Zero))

ARMA_predict(m2, centeredSeries, horizon) ==
  Ret(m2, ARMA_steps(m2,
                     IF m2.p > 0
                     THEN PadLeft(SliceLast(centeredSeries, m2.p), m2.p)
                     ELSE centeredSeries,
                     IF m2.q > 0
                     THEN PadRight(Reverse(SliceLast(m2.errors, m2.q)), m2.q)
                     ELSE Reverse(m2.errors),
                     horizon))
\* m2: after the attempt to re-initialize for the MA coefficients
ARMA_checkMA(m2, horizon) ==
  IF m2.q > 0 /\ Len(m2.maCoefficients) # m2.q
  THEN Ret(m2, Fill(horizon, m2.seriesMean))
  ELSE ARMA_predict(m2, Centered(Xs(m2.ts), m2.seriesMean), horizon)
\* m1: after the attempt to re-initialize for the AR coefficients
ARMA_checkAR(m1, horizon) ==
  IF m1.p > 0 /\ Len(m1.arCoefficients) # m1.p
  THEN Ret(m1, Fill(horizon, m1.seriesMean))
  ELSE ARMA_checkMA(IF m1.q > 0 /\ Len(m1.maCoefficients) # m1.q
                    THEN ARMA_initialize(m1) ELSE m1,
                    horizon)
ARMA_forecast(m, horizon) ==
  IF Len(m.ts) = 0 /\ (m.p > 0 \/ m.q > 0) THEN Ret(m, Fill(horizon, Zero))
  ELSE IF m.p = 0 /\ m.q = 0 THEN Ret(m, Fill(horizon, m.seriesMean))
  ELSE ARMA_checkAR(IF m.p > 0 /\ Len(m.arCoefficients) # m.p
                    THEN ARMA_initialize(m) ELSE m,
                    horizon)

\* np: [p, q, coefficients, arCoefficients, maCoefficients, errors], each
\* optional, and keys: the names of the keys the object carries (a key may be
\* present with the value undefined, which {...params, ...newParams} copies)
Spread(old, np, key, new) == IF key \in np.keys THEN new ELSE old

\* the errors-only branch, m3.errors being newParams.errors
ARMA_truncateNewErrors(m4) ==
  IF m4.q > 0 /\ Len(m4.errors) > m4.q
  THEN Fresh(m4, SliceLast(m4.errors, m4.q))
  ELSE IF m4.q = 0 THEN Fresh(m4, <<>>)
  ELSE m4
\* the new errors taken as they are
ARMA_keepNewErrors(m3) == m3
ARMA_replaceErrors(m3) ==
  ARMA_truncateNewErrors(
    InPlace(m3, IF m3.q > 0 THEN PadLeft(m3.errors, m3.q) ELSE m3.errors))
\* the re-initialization branch, m2 holding the working copies
ARMA_reinitialize(m2) ==
  IF Len(m2.ts) > 0 THEN ARMA_initialize(m2)
  ELSE Fresh([m2 EXCEPT
                !.arCoefficients = IF m2.p > 0 /\ Len(@) # m2.p
                                   THEN Fill(m2.p, Zero) ELSE @,
                !.maCoefficients = IF m2.q > 0 /\ Len(@) # m2.q
                                   THEN Fill(m2.q, Tenth) ELSE @],
             Fill(m2.q, Zero))
\* m1: params merged, p and q being the orders before the call
ARMA_applyParams(m1, np, p, q) ==
  IF (IsSome(np.p) /\ Get(np.p) # p) \/ (IsSome(np.q) /\ Get(np.q) # q)
     \/ IsSome(np.arCoefficients) \/ IsSome(np.maCoefficients)
     \/ IsSome(np.coefficients)
  THEN ARMA_reinitialize([m1 EXCEPT !.arCoefficients = OrElse(m1.par, <<>>),
                                    !.maCoefficients = OrElse(m1.pma, <<>>),
                                    !.errors = OrElse(m1.perr, @),
                                    !.alias = IF IsSome(m1.perr) THEN TRUE ELSE @])
  ELSE IF IsSome(np.errors)
  THEN ARMA_replaceErrors([m1 EXCEPT !.errors = Get(np.errors), !.alias = TRUE])
  ELSE m1
ARMA_updateParams(m, np) ==
  ARMA_applyParams(
    [m EXCEPT !.p = OrElse(np.p, @), !.q = OrElse(np.q, @),
              !.par = Spread(@, np, "arCoefficients", np.arCoefficients),
              !.pma = Spread(@, np, "maCoefficients", np.maCoefficients),
              !.pcoefs = Spread(@, np, "coefficients", np.coefficients),
              !.perr = Spread(@, np, "errors", np.errors),
              !.alias = IF "errors" \in np.keys THEN FALSE ELSE @],
    np, m.p, m.q)

(***************************************************************************)
(* Differencing (lib/utils/math.ts)                                        *)
(***************************************************************************)
DiffOnce(data) ==
  IF Len(data) = 0 THEN <<>>
  ELSE [j \in 1..(Len(data) - 1) |-> RSub(data[j + 1], data[j])]

RECURSIVE DiffTimes(_, _)
DiffTimes(data, n) == IF n = 0 THEN data ELSE DiffTimes(DiffOnce(data), n - 1)

\* a differencing that takes first differences only, whatever d is
differenceOnce(data, d) ==
  IF d = 0 THEN data
  ELSE IF Len(data) <= d THEN <<>>
  ELSE DiffOnce(data)

\* difference(data, d) for d >= 0; it throws for d < 0
\* a guard that rejects d = 0 as well
differenceRaisesNonPositive(d) == d <= 0
differenceRaises(d) == d < 0
difference(data, d) ==
  IF d = 0 THEN data
  ELSE IF Len(data) <= d THEN <<>>
  ELSE DiffTimes(data, d)

RECURSIVE CombLoop(_, _, _, _)
CombLoop(res, n, i, k) ==
  IF i > k THEN res
  ELSE CombLoop(RDiv(RMul(res, R(n - i + 1)), R(i)), n, i + 1, k)

combinations(n, k) ==
  IF k < 0 \/ k > n THEN Zero
  ELSE IF k = 0 \/ k = n THEN R(1)
  ELSE CombLoop(R(1), n, 1, IF 2 * k > n THEN n - k ELSE k)

inverseDifferenceRaises(originalSeriesTail, d) ==
  d # 0 /\ (d < 0 \/ Len(originalSeriesTail) < d)

RECURSIVE InvDiffLoop(_, _, _, _)
InvDiffLoop(acc, tail, d, k) ==
  IF k > d THEN acc
  ELSE LET term == RMul(combinations(d, k), tail[Len(tail) + 1 - k])
       IN  InvDiffLoop(IF k % 2 = 1 THEN RAdd(acc, term) ELSE RSub(acc, term),
                       tail, d, k + 1)

\* an integration that adds back the last value only, whatever d is
inverseDifferenceOnce(forecastOfDifferencedSeries, originalSeriesTail, d) ==
  IF d = 0 THEN forecastOfDifferencedSeries
  ELSE RAdd(forecastOfDifferencedSeries,
            originalSeriesTail[Len(originalSeriesTail)])

\* the value returned when inverseDifferenceForecast does not throw
inverseDifferenceForecast(forecastOfDifferencedSeries, originalSeriesTail, d) ==
  LET f == forecastOfDifferencedSeries
      tail == originalSeriesTail
      n == Len(tail)
  IN  IF d = 0 THEN f
      ELSE IF d = 1 THEN RAdd(f, tail[n])
      ELSE IF d = 2 THEN RSub(RAdd(f, RMul(R(2), tail[n])), tail[n - 1])
      ELSE InvDiffLoop(f, tail, d, 1)

(***************************************************************************)
(* ARIMAForecaster (src/unnamed/part_004)                                  *)
(* record: ts, p, d, q, par, pma, perr (params), arma (armaForecaster,     *)
(* optional), diff (differencedTimeSeries), tail (originalSeriesTail).     *)
(* params.errors and the sub-model's params.errors are one array: perr is  *)
(* read back from the sub-model after every call made on it.  replaced:    *)
(* updateParams has just put a caller's new array in params.errors, which  *)
(* the sub-model does not refer to until it is given it.                   *)
(***************************************************************************)
Max(a, b) == IF a > b THEN a ELSE b

ARIMA_armaParams(a) ==
  [p |-> a.p, q |-> a.q, coefficients |-> None,
   arCoefficients |-> a.par, maCoefficients |-> a.pma, errors |-> a.perr]

ARIMA_armaNewParams(a) ==
  [p |-> Some(a.p), q |-> Some(a.q), coefficients |-> None,
   arCoefficients |-> a.par, maCoefficients |-> a.pma, errors |-> a.perr,
   keys |-> {"p", "q", "arCoefficients", "maCoefficients", "errors"}]

\* the forecaster holding sub-model arma, whose params.errors it shares
WithArma(a, arma) ==
  [a EXCEPT !.arma = Some(arma), !.perr = arma.perr, !.replaced = FALSE]
\* the forecaster with the sub-model it had
KeepArma(a) == [a EXCEPT !.replaced = FALSE]
\* the forecaster without a sub-model
NoArma(a) == [a EXCEPT !.arma = None, !.replaced = FALSE]

\* a1: tail and differenced series rebuilt; the sub-model is updated when it
\* exists and the differenced series is longer than max(p, q), built anew
\* when the differenced series is not empty, dropped otherwise
\* updated: the sub-model after its updateTimeSeries, which may have pushed
\* to and shifted the array params.errors refers to
ARIMA_updateArma(a1, updated) ==
  WithArma(a1, ARMA_updateParams(
                 updated,
                 ARIMA_armaNewParams(IF a1.replaced THEN a1
                                     ELSE [a1 EXCEPT !.perr = updated.perr])))
ARIMA_setArma(a1) ==
  IF Len(a1.diff) > Max(a1.p, a1.q) /\ IsSome(a1.arma)
  THEN ARIMA_updateArma(a1, ARMA_updateTimeSeries(Get(a1.arma), a1.diff))
  ELSE IF Len(a1.diff) > 0
  THEN WithArma(a1, ARMA_new(a1.diff, ARIMA_armaParams(a1)))
  ELSE NoArma(a1)
ARIMA_setDifferenced(a, currentSeriesData, differencedValues) ==
  ARIMA_setArma(
    IF a.d > 0
    THEN [a EXCEPT
            !.tail = <<SliceLast(currentSeriesData, a.d)>>,
            !.diff = [i \in 1..Len(differencedValues) |->
                        [t |-> a.ts[i + a.d].t, x |-> differencedValues[i]]]]
    ELSE [a EXCEPT !.tail = <<>>, !.diff = a.ts])
ARIMA_initializeOrUpdateArma(a) ==
  IF Len(a.ts) = 0 /\ a.d > 0
  THEN NoArma([a EXCEPT !.diff = <<>>])
  ELSE IF a.d > 0 /\ Len(a.ts) <= a.d
  THEN NoArma([a EXCEPT !.tail = <<>>, !.diff = <<>>])
  ELSE ARIMA_setDifferenced(a, Xs(a.ts), difference(Xs(a.ts), a.d))

\* params: [p, d, q, arCoefficients, maCoefficients, errors]
ARIMA_new(ts, params) ==
  ARIMA_initializeOrUpdateArma(
    [ts |-> ts, p |-> params.p, d |-> params.d, q |-> params.q,
     par |-> params.arCoefficients, pma |-> params.maCoefficients,
     perr |-> params.errors, replaced |-> FALSE, arma |-> None,
     diff |-> <<>>, tail |-> <<>>])

\* an update that keeps the differenced series it had
ARIMA_keepDifferenced(a, ts) == [a EXCEPT !.ts = ts]
ARIMA_updateTimeSeries(a, ts) ==
  ARIMA_initializeOrUpdateArma([a EXCEPT !.ts = ts])

\* the tail forecast() starts from: originalSeriesTail[0] || [], left-padded
\* with earlier raw values (or the last one) while shorter than d
RECURSIVE ARIMA_padTail(_, _)
ARIMA_padTail(a, cur) ==
  IF Len(cur) < a.d /\ a.d > 0
  THEN ARIMA_padTail(a,
         <<IF Len(a.ts) > Len(cur) THEN a.ts[Len(a.ts) - Len(cur)].x
           ELSE IF Len(a.ts) > 0 THEN a.ts[Len(a.ts)].x ELSE Zero>> \o cur)
  ELSE cur

\* a reconstruction that starts from an empty tail
ARIMA_emptyTail(a) == <<>>
ARIMA_startTail(a) ==
  ARIMA_padTail(a, IF Len(a.tail) > 0 THEN a.tail[1] ELSE <<>>)

\* a reconstruction that stops after the first step
ARIMA_reconstructOne(armaForecasts, i, currentOriginalSeriesTail, d) ==
  IF i > Len(armaForecasts) THEN <<>>
  ELSE <<inverseDifferenceForecast(armaForecasts[i],
                                   currentOriginalSeriesTail, d)>>
RECURSIVE ARIMA_reconstruct(_, _, _, _)
ARIMA_reconstruct(armaForecasts, i, currentOriginalSeriesTail, d) ==
  IF i > Len(armaForecasts) THEN <<>>
  ELSE LET reconstructedForecast ==
             inverseDifferenceForecast(armaForecasts[i],
                                       currentOriginalSeriesTail, d)
       IN  <<reconstructedForecast>> \o
           ARIMA_reconstruct(armaForecasts, i + 1,
                             Append(Shift(currentOriginalSeriesTail),
                                    reconstructedForecast), d)

\* r: the sub-model's forecast call, start: the tail to reconstruct from
ARIMA_integrate(a, horizon, r, start) ==
  [m |-> WithArma(a, r.m),
   vals |-> IF a.d = 0 THEN r.vals
            ELSE IF horizon > 0 /\ inverseDifferenceRaises(start, a.d) THEN <<>>
            ELSE ARIMA_reconstruct(r.vals, 1, start, a.d),
   raised |-> a.d # 0 /\ horizon > 0 /\ inverseDifferenceRaises(start, a.d)]
\* a forecast that repeats the last raw value
ARIMA_forecastLast(a, horizon) ==
  Ret(a, Fill(horizon, IF Len(a.ts) > 0 THEN a.ts[Len(a.ts)].x ELSE Zero))
ARIMA_forecast(a, horizon) ==
  IF ~IsSome(a.arma) \/ (Len(a.diff) = 0 /\ (a.p > 0 \/ a.q > 0))
  THEN Ret(a, Fill(horizon, IF Len(a.ts) > 0 THEN mean(Xs(a.ts)) ELSE Zero))
  ELSE ARIMA_integrate(a, horizon, ARMA_forecast(Get(a.arma), horizon),
                       ARIMA_startTail(a))

\* np: [p, d, q, arCoefficients, maCoefficients, errors], each optional
\* a1: params merged, d being the order before the call.  Both re-initializing
\* branches call initializeOrUpdateArma; without a sub-model it builds one
ARIMA_applyParams(a1, np, d) ==
  IF (IsSome(np.d) /\ Get(np.d) # d) \/ ~IsSome(a1.arma)
  THEN ARIMA_initializeOrUpdateArma(a1)
  ELSE WithArma(a1, ARMA_updateParams(Get(a1.arma), ARIMA_armaNewParams(a1)))
ARIMA_updateParams(a, np) ==
  ARIMA_applyParams([a EXCEPT !.p = OrElse(np.p, @), !.d = OrElse(np.d, @),
                              !.q = OrElse(np.q, @),
                              !.par = Merge(@, np.arCoefficients),
                              !.pma = Merge(@, np.maCoefficients),
                              !.perr = Merge(@, np.errors),
                              !.replaced = IsSome(np.errors)],
                    np, a.d)

(***************************************************************************)
(* lib/utils/SignalBuffer.ts                                               *)
(* record: data (timeSeries.data, points [t, x]), lastGeneratedT, and the  *)
(* config: bufferAheadSeconds, bufferBehindSeconds, tickDuration.          *)
(* Times are whole microseconds and tickDuration is a multiple of 100 of   *)
(* them, so that epsilon = tickDuration / 100 is exact.                    *)
(***************************************************************************)
\* Math.round(a / b) for b > 0: the nearest integer, halves rounded up
RoundDiv(a, b) == (2 * a + b) \div (2 * b)
\* parseFloat(t.toFixed(5)): five decimals of a second are 10 microseconds
ToFixed5(t) == RoundDiv(t, 10) * 10
\* generator.generate(t): some function of t; the buffer never reads x
Generate(t) == (t \div 100) % 3

SignalBuffer_new(config) ==
  [data |-> <<>>, lastGeneratedT |-> 0,
   bufferAheadSeconds |-> config.bufferAheadSeconds,
   bufferBehindSeconds |-> config.bufferBehindSeconds,
   tickDuration |-> config.tickDuration]

\* data.push(...newData); data.sort((a, b) => a.t - b.t): both are in
\* increasing order of t and no new point has the t of a held one
\* a push that is not followed by the sort
PushUnsorted(data, newData) == data \o newData
RECURSIVE SortedMerge(_, _)
SortedMerge(data, newData) ==
  IF Len(newData) = 0 THEN data
  ELSE IF Len(data) = 0 THEN newData
  ELSE IF data[1].t <= newData[1].t
  THEN <<data[1]>> \o SortedMerge(Tail(data), newData)
  ELSE <<newData[1]>> \o SortedMerge(data, Tail(newData))

\* the points pushed by the while loop of generateAndAppend from currentT on
RECURSIVE NewData(_, _, _)
NewData(b, currentT, endT) ==
  IF currentT > endT + b.tickDuration \div 100 THEN <<>>
  ELSE (IF \E i \in 1..Len(b.data) :
              Abs(b.data[i].t - ToFixed5(currentT)) < b.tickDuration \div 100
        THEN <<>>
        ELSE <<[t |-> ToFixed5(currentT), x |-> Generate(ToFixed5(currentT))]>>)
       \o NewData(b, currentT + b.tickDuration, endT)

\* when the loop ends currentT is past endT + epsilon, which is what the
\* second branch tests
SignalBuffer_generateAndAppend(b, startT, endT) ==
  LET epsilon == b.tickDuration \div 100
      rounded == RoundDiv(startT, b.tickDuration) * b.tickDuration
      newData == NewData(b, IF rounded < startT - epsilon
                            THEN rounded + b.tickDuration ELSE rounded, endT)
      b1 == IF Len(newData) > 0
            THEN [b EXCEPT !.data = SortedMerge(@, newData),
                           !.lastGeneratedT = newData[Len(newData)].t]
            ELSE IF Len(b.data) > 0
            THEN [b EXCEPT !.lastGeneratedT =
                             Max(@, IF b.data[Len(b.data)].t < endT
                                    THEN b.data[Len(b.data)].t ELSE endT)]
            ELSE [b EXCEPT !.lastGeneratedT = 0]
  IN  IF /\ startT >= endT - epsilon /\ b1.lastGeneratedT < endT
         /\ \E i \in 1..Len(b1.data) : b1.data[i].t >= endT - epsilon
      THEN [b1 EXCEPT !.lastGeneratedT = Max(@, endT)]
      ELSE b1

KeepsPoint(b, cutoffT, point) == point.t >= cutoffT - b.tickDuration \div 100
\* a clean-up that drops nothing
SignalBuffer_keepOldData(b, cutoffT) == b
SignalBuffer_trimOldData(b, cutoffT) ==
  [b EXCEPT !.data = SelectSeq(@, LAMBDA point : KeepsPoint(b, cutoffT, point))]

\* update() up to the clean-up.  Generation starts at the first tick at or
\* before currentTime, not before the 'behind' window, when nothing is
\* buffered; else at the tick after lastGeneratedT
SignalBuffer_generate(b, currentTime) ==
  LET targetAheadT == currentTime + b.bufferAheadSeconds
      epsilon == b.tickDuration \div 100
      rounded == RoundDiv(currentTime, b.tickDuration) * b.tickDuration
      generationStartT ==
        IF Len(b.data) = 0 \/ Abs(b.lastGeneratedT) < epsilon
        THEN Max(IF rounded > currentTime THEN rounded - b.tickDuration
                 ELSE rounded,
                 currentTime - b.bufferBehindSeconds)
        ELSE b.lastGeneratedT + b.tickDuration
  IN  IF /\ b.lastGeneratedT < targetAheadT - epsilon
         /\ generationStartT < targetAheadT + epsilon
      THEN SignalBuffer_generateAndAppend(b, generationStartT, targetAheadT)
      ELSE b
SignalBuffer_update(b, currentTime) ==
  SignalBuffer_trimOldData(SignalBuffer_generate(b, currentTime),
                           currentTime - b.bufferBehindSeconds)

SignalBuffer_reset(b) == [b EXCEPT !.data = <<>>, !.lastGeneratedT = 0]

(***************************************************************************)
(* Inputs                                                                  *)
(***************************************************************************)
\* a series that wiggles around a trend, and a constant one (singular
\* Yule-Walker system); the callers' series are their prefixes, so that an
\* update may append points, replace the series or empty it
Wiggle(i) == i + 2 * (i % 2)
Flat(i) == 3
SeriesInputs ==
  {[i \in 1..n |-> [t |-> i, x |-> R(Wiggle(i))]] : n \in 0..MaxLen} \cup
  {[i \in 1..n |-> [t |-> i, x |-> R(Flat(i))]] : n \in {MaxLen}}

Orders == {0, 1, 2}
CoefInputs == {<<Q(1, 2)>>, <<Q(1, 2), Q(1, 5)>>}
ErrInputs == {<<Q(1, 5)>>, <<Q(1, 5), Q(-2, 5)>>}
Horizons == 0..MaxHorizon
Opt(S) == {None} \cup {Some(v) : v \in S}

ARParamInputs == [p : Orders, coefficients : Opt(CoefInputs)]
ARNewParamInputs == [p : Opt(Orders), coefficients : Opt(CoefInputs)]
MAParamInputs == [q : Orders, coefficients : Opt(CoefInputs), errors : Opt(ErrInputs)]
MANewParamInputs ==
  [q : Opt(Orders), coefficients : Opt(CoefInputs), errors : Opt(ErrInputs)]

\* ARMA and ARIMA parameter objects: the constructor's, and updateParams' as
\* either a single key or a whole re-parameterisation
AROrders == {0, 1}
DOrders == {0, 1, 2}
PinInputs ==
  {<<None, None>>, <<Some(<<Q(1, 2)>>), Some(<<Q(1, 2)>>)>>,
   <<Some(<<Q(1, 2), Q(1, 5)>>), None>>, <<None, Some(<<Q(1, 2), Q(1, 5)>>)>>,
   <<Some(<<Q(1, 2)>>), Some(<<Q(1, 2), Q(1, 5)>>)>>}
ARMAParamInputs ==
  {[p |-> p, q |-> q, coefficients |-> None, arCoefficients |-> pin[1],
    maCoefficients |-> pin[2], errors |-> e] :
     p \in AROrders, q \in Orders, pin \in PinInputs,
     e \in Opt({<<Q(1, 5), Q(-2, 5)>>})}
NoNew ==
  [p |-> None, d |-> None, q |-> None, coefficients |-> None,
   arCoefficients |-> None, maCoefficients |-> None, errors |-> None, keys |-> {}]
SingleKeyInputs ==
  {NoNew}
  \cup {[NoNew EXCEPT !.p = Some(v), !.keys = {"p"}] : v \in AROrders}
  \cup {[NoNew EXCEPT !.q = Some(v), !.keys = {"q"}] : v \in Orders}
  \cup {[NoNew EXCEPT !.arCoefficients = Some(v), !.keys = {"arCoefficients"}] :
          v \in CoefInputs}
  \cup {[NoNew EXCEPT !.maCoefficients = Some(v), !.keys = {"maCoefficients"}] :
          v \in CoefInputs}
  \cup {[NoNew EXCEPT !.errors = Some(v), !.keys = {"errors"}] : v \in ErrInputs}
  \cup {[NoNew EXCEPT !.coefficients = Some(<<Q(1, 2), Q(1, 5)>>),
                      !.keys = {"coefficients"}]}
WholeInputs ==
  {[NoNew EXCEPT !.p = Some(1), !.q = Some(k), !.arCoefficients = Some(c),
                 !.maCoefficients = Some(c), !.errors = Some(e),
                 !.keys = {"p", "q", "arCoefficients", "maCoefficients", "errors"}] :
     k \in {1, 2}, c \in CoefInputs, e \in {<<Q(1, 5), Q(-2, 5)>>}}
ARMANewParamInputs == SingleKeyInputs \cup WholeInputs

ARIMAParamInputs ==
  {[p |-> p, d |-> d, q |-> q, arCoefficients |-> pin[1],
    maCoefficients |-> pin[2], errors |-> e] :
     p \in AROrders, d \in DOrders, q \in AROrders,
     pin \in {<<None, None>>, <<Some(<<Q(1, 2)>>), Some(<<Q(1, 2)>>)>>},
     e \in Opt({<<Q(1, 5)>>})}
ARIMANewParamInputs ==
  {NoNew}
  \cup {[NoNew EXCEPT !.p = Some(v), !.keys = {"p"}] : v \in AROrders}
  \cup {[NoNew EXCEPT !.d = Some(v), !.keys = {"d"}] : v \in DOrders}
  \cup {[NoNew EXCEPT !.q = Some(v), !.keys = {"q"}] : v \in AROrders}
  \cup {[NoNew EXCEPT !.arCoefficients = Some(<<Q(1, 2)>>),
                      !.keys = {"arCoefficients"}],
        [NoNew EXCEPT !.maCoefficients = Some(<<Q(1, 2)>>),
                      !.keys = {"maCoefficients"}]}
  \cup {[NoNew EXCEPT !.errors = Some(v), !.keys = {"errors"}] : v \in ErrInputs}

(***************************************************************************)
(* State                                                                   *)
(***************************************************************************)
VARIABLES
  focus,   \* which forecaster the caller built: "AR", "MA", "ARMA", "ARIMA"
  ar,      \* the ARForecaster
  ma,      \* the MAForecaster
  arma,    \* the ARMAForecaster
  arima,   \* the ARIMAForecaster
  op,      \* the last call made: "new", "updateTimeSeries", "updateParams", "forecast"
  out,     \* the last forecast call: horizon h, values vals, raised
  nops,    \* mutator calls made since construction
  startedWithData, \* whether the constructor was given a non-empty series
  call,    \* the last call made on the differencing functions of math.ts
  buffer,  \* the SignalBuffer
  bufferCall  \* the last call made on the SignalBuffer

forecasterVars == <<focus, ar, ma, arma, arima, op, out, nops, startedWithData>>
utilVars == <<call, buffer, bufferCall>>
vars == <<forecasterVars, utilVars>>

\* no call made on the differencing functions.  data and d: the caller's
\* series and order; diff: what difference(data, d) returned, once called
\* without raising; fn: the function called last, raised and vals: its outcome
NoCall ==
  [fn |-> "none", data |-> <<>>, d |-> 0, diff |-> None, tail |-> <<>>,
   f |-> Zero, raised |-> FALSE, vals |-> <<>>]
IdleBuffer ==
  SignalBuffer_new([bufferAheadSeconds |-> 100, bufferBehindSeconds |-> 100,
                    tickDuration |-> 100])
\* dropped: the number of points the clean-up of update removed; generated:
\* the times generator.generate has been called with since construction,
\* twice: those it has been called with more than once; n: the calls made,
\* updatesOnly: all of them were update calls
NoBufferCall ==
  [fn |-> "none", currentTime |-> 0, dropped |-> 0, generated |-> {},
   twice |-> {}, n |-> 0, updatesOnly |-> TRUE]
UtilIdle == call = NoCall /\ buffer = IdleBuffer /\ bufferCall = NoBufferCall

NoOut == [h |-> 0, vals |-> <<>>, raised |-> FALSE, touched |-> FALSE]
\* what forecast(h) gave back, and whether it left the forecaster m changed
Out(h, r, m) == [h |-> h, vals |-> r.vals, raised |-> r.raised, touched |-> r.m # m]

NoParams ==
  [p |-> 0, d |-> 0, q |-> 0, coefficients |-> None, arCoefficients |-> None,
   maCoefficients |-> None, errors |-> None]
\* the forecasters the caller did not build keep these values
IdleAR == AR_new(<<>>, 0, None)
IdleMA == MA_new(<<>>, 0, None, None)
IdleARMA == ARMA_new(<<>>, NoParams)
IdleARIMA == ARIMA_new(<<>>, NoParams)

InitAR ==
  /\ focus = "AR"
  /\ \E ts \in SeriesInputs, params \in ARParamInputs :
       /\ ar = AR_new(ts, params.p, params.coefficients)
       /\ startedWithData = (Len(ts) > 0)
  /\ ma = IdleMA /\ arma = IdleARMA /\ arima = IdleARIMA
  /\ op = "new" /\ out = NoOut /\ nops = 0 /\ UtilIdle

InitMA ==
  /\ focus = "MA"
  /\ \E ts \in SeriesInputs, params \in MAParamInputs :
       /\ ma = MA_new(ts, params.q, params.coefficients, params.errors)
       /\ startedWithData = (Len(ts) > 0)
  /\ ar = IdleAR /\ arma = IdleARMA /\ arima = IdleARIMA
  /\ op = "new" /\ out = NoOut /\ nops = 0 /\ UtilIdle

\* After a forecast that changed nothing the forecaster is in the state it
\* had before the call, where every call is explored already: a behaviour
\* goes on after a forecast only when the forecast changed the forecaster.
\* Mutator calls are counted up to MaxOps.
CanCall == op = "forecast" => out.touched
CanMutate == CanCall /\ nops < MaxOps
Mutated(name) == op' = name /\ out' = NoOut /\ nops' = nops + 1

ARUpdateTimeSeries ==
  /\ focus = "AR" /\ CanMutate
  /\ \E ts \in SeriesInputs : ar' = AR_updateTimeSeries(ar, ts)
  /\ Mutated("updateTimeSeries")
  /\ UNCHANGED <<utilVars, focus, startedWithData, ma, arma, arima>>

ARUpdateParams ==
  /\ focus = "AR" /\ CanMutate
  /\ \E np \in ARNewParamInputs : ar' = AR_updateParams(ar, np)
  /\ Mutated("updateParams")
  /\ UNCHANGED <<utilVars, focus, startedWithData, ma, arma, arima>>

ARForecast ==
  /\ focus = "AR" /\ CanCall
  /\ \E h \in Horizons :
       LET r == AR_forecast(ar, h) IN ar' = r.m /\ out' = Out(h, r, ar)
  /\ op' = "forecast"
  /\ UNCHANGED <<utilVars, focus, startedWithData, ma, arma, arima, nops>>

MAUpdateTimeSeries ==
  /\ focus = "MA" /\ CanMutate
  /\ \E ts \in SeriesInputs : ma' = MA_updateTimeSeries(ma, ts)
  /\ Mutated("updateTimeSeries")
  /\ UNCHANGED <<utilVars, focus, startedWithData, ar, arma, arima>>

MAUpdateParams ==
  /\ focus = "MA" /\ CanMutate
  /\ \E np \in MANewParamInputs : ma' = MA_updateParams(ma, np)
  /\ Mutated("updateParams")
  /\ UNCHANGED <<utilVars, focus, startedWithData, ar, arma, arima>>

MAForecast ==
  /\ focus = "MA" /\ CanCall
  /\ \E h \in Horizons :
       LET r == MA_forecast(ma, h) IN ma' = r.m /\ out' = Out(h, r, ma)
  /\ op' = "forecast"
  /\ UNCHANGED <<utilVars, focus, startedWithData, ar, arma, arima, nops>>

InitARMA ==
  /\ focus = "ARMA"
  /\ \E ts \in SeriesInputs, params \in ARMAParamInputs :
       /\ arma = ARMA_new(ts, params)
       /\ startedWithData = (Len(ts) > 0)
  /\ ar = IdleAR /\ ma = IdleMA /\ arima = IdleARIMA
  /\ op = "new" /\ out = NoOut /\ nops = 0 /\ UtilIdle

ARMAUpdateTimeSeries ==
  /\ focus = "ARMA" /\ CanMutate
  /\ \E ts \in SeriesInputs : arma' = ARMA_updateTimeSeries(arma, ts)
  /\ Mutated("updateTimeSeries")
  /\ UNCHANGED <<utilVars, focus, startedWithData, ar, ma, arima>>

ARMAUpdateParams ==
  /\ focus = "ARMA" /\ CanMutate
  /\ \E np \in ARMANewParamInputs : arma' = ARMA_updateParams(arma, np)
  /\ Mutated("updateParams")
  /\ UNCHANGED <<utilVars, focus, startedWithData, ar, ma, arima>>

ARMAForecast ==
  /\ focus = "ARMA" /\ CanCall
  /\ \E h \in Horizons :
       LET r == ARMA_forecast(arma, h) IN arma' = r.m /\ out' = Out(h, r, arma)
  /\ op' = "forecast"
  /\ UNCHANGED <<utilVars, focus, startedWithData, ar, ma, arima, nops>>

InitARIMA ==
  /\ focus = "ARIMA"
  /\ \E ts \in SeriesInputs, params \in ARIMAParamInputs :
       /\ arima = ARIMA_new(ts, params)
       /\ startedWithData = (Len(ts) > 0)
  /\ ar = IdleAR /\ ma = IdleMA /\ arma = IdleARMA
  /\ op = "new" /\ out = NoOut /\ nops = 0 /\ UtilIdle

ARIMAUpdateTimeSeries ==
  /\ focus = "ARIMA" /\ CanMutate
  /\ \E ts \in SeriesInputs : arima' = ARIMA_updateTimeSeries(arima, ts)
  /\ Mutated("updateTimeSeries")
  /\ UNCHANGED <<utilVars, focus, startedWithData, ar, ma, arma>>

ARIMAUpdateParams ==
  /\ focus = "ARIMA" /\ CanMutate
  /\ \E np \in ARIMANewParamInputs : arima' = ARIMA_updateParams(arima, np)
  /\ Mutated("updateParams")
  /\ UNCHANGED <<utilVars, focus, startedWithData, ar, ma, arma>>

ARIMAForecast ==
  /\ focus = "ARIMA" /\ CanCall
  /\ \E h \in Horizons :
       LET r == ARIMA_forecast(arima, h) IN arima' = r.m /\ out' = Out(h, r, arima)
  /\ op' = "forecast"
  /\ UNCHANGED <<utilVars, focus, startedWithData, ar, ma, arma, nops>>

Init == InitAR \/ InitMA \/ InitARMA \/ InitARIMA

Next ==
  \/ ARUpdateTimeSeries \/ ARUpdateParams \/ ARForecast
  \/ MAUpdateTimeSeries \/ MAUpdateParams \/ MAForecast
  \/ ARMAUpdateTimeSeries \/ ARMAUpdateParams \/ ARMAForecast
  \/ ARIMAUpdateTimeSeries \/ ARIMAUpdateParams \/ ARIMAForecast

Spec == Init /\ [][Next]_vars

(***************************************************************************)
(* Two forecasters side by side: the caller builds both from the same      *)
(* arguments (the arrays equal, each forecaster given its own), then makes *)
(* the same updateTimeSeries call on both and asks both for a forecast.    *)
(* out.vals is the first forecaster's forecast, out.other the second's.    *)
(***************************************************************************)
PairOut(h, r1, m1, r2, m2) ==
  [h |-> h, vals |-> r1.vals, other |-> r2.vals,
   raised |-> r1.raised \/ r2.raised, touched |-> r1.m # m1 \/ r2.m # m2]

\* an ARIMAForecaster with d = 0 beside an ARMAForecaster
ZeroDParamInputs ==
  {[p |-> p, d |-> 0, q |-> q, arCoefficients |-> pin[1],
    maCoefficients |-> pin[2], errors |-> e] :
     p \in AROrders, q \in AROrders,
     pin \in {<<None, None>>, <<Some(<<Q(1, 2)>>), Some(<<Q(1, 2)>>)>>},
     e \in Opt(ErrInputs)}
InitZeroD ==
  /\ focus = "ARIMA|ARMA"
  /\ \E ts \in SeriesInputs, params \in ZeroDParamInputs :
       /\ arima = ARIMA_new(ts, params)
       /\ arma = ARMA_new(ts, [p |-> params.p, q |-> params.q,
                               coefficients |-> None,
                               arCoefficients |-> params.arCoefficients,
                               maCoefficients |-> params.maCoefficients,
                               errors |-> params.errors])
       /\ startedWithData = (Len(ts) > 0)
  /\ ar = IdleAR /\ ma = IdleMA
  /\ op = "new" /\ out = NoOut /\ nops = 0 /\ UtilIdle

ZeroDUpdateTimeSeries ==
  /\ focus = "ARIMA|ARMA" /\ CanMutate
  /\ \E ts \in SeriesInputs :
       /\ arima' = ARIMA_updateTimeSeries(arima, ts)
       /\ arma' = ARMA_updateTimeSeries(arma, ts)
  /\ Mutated("updateTimeSeries")
  /\ UNCHANGED <<utilVars, focus, startedWithData, ar, ma>>

ZeroDForecast ==
  /\ focus = "ARIMA|ARMA" /\ CanCall
  /\ \E h \in Horizons :
       LET r1 == ARIMA_forecast(arima, h)
           r2 == ARMA_forecast(arma, h)
       IN  /\ arima' = r1.m /\ arma' = r2.m
           /\ out' = PairOut(h, r1, arima, r2, arma)
  /\ op' = "forecast"
  /\ UNCHANGED <<utilVars, focus, startedWithData, ar, ma, nops>>

NextZeroD == ZeroDUpdateTimeSeries \/ ZeroDForecast
SpecZeroD == InitZeroD /\ [][NextZeroD]_vars

\* an ARMAForecaster with p = 0 beside an MAForecaster
InitZeroP ==
  /\ focus = "ARMA|MA"
  /\ \E ts \in SeriesInputs, params \in MAParamInputs :
       /\ arma = ARMA_new(ts, [p |-> 0, q |-> params.q, coefficients |-> None,
                               arCoefficients |-> None,
                               maCoefficients |-> params.coefficients,
                               errors |-> params.errors])
       /\ ma = MA_new(ts, params.q, params.coefficients, params.errors)
       /\ startedWithData = (Len(ts) > 0)
  /\ ar = IdleAR /\ arima = IdleARIMA
  /\ op = "new" /\ out = NoOut /\ nops = 0 /\ UtilIdle

ZeroPUpdateTimeSeries ==
  /\ focus = "ARMA|MA" /\ CanMutate
  /\ \E ts \in SeriesInputs :
       /\ arma' = ARMA_updateTimeSeries(arma, ts)
       /\ ma' = MA_updateTimeSeries(ma, ts)
  /\ Mutated("updateTimeSeries")
  /\ UNCHANGED <<utilVars, focus, startedWithData, ar, arima>>

ZeroPForecast ==
  /\ focus = "ARMA|MA" /\ CanCall
  /\ \E h \in Horizons :
       LET r1 == ARMA_forecast(arma, h)
           r2 == MA_forecast(ma, h)
       IN  /\ arma' = r1.m /\ ma' = r2.m
           /\ out' = PairOut(h, r1, arma, r2, ma)
  /\ op' = "forecast"
  /\ UNCHANGED <<utilVars, focus, startedWithData, ar, arima, nops>>

NextZeroP == ZeroPUpdateTimeSeries \/ ZeroPForecast
SpecZeroP == InitZeroP /\ [][NextZeroP]_vars

(***************************************************************************)
(* An ARIMAForecaster whose caller may supply any differencing order, a    *)
(* negative one included, to the constructor and to updateParams.          *)
(***************************************************************************)
AnyDOrders == {-1, 0, 1}
AnyDParamInputs ==
  {[p |-> p, d |-> d, q |-> q, arCoefficients |-> None,
    maCoefficients |-> None, errors |-> None] :
     p \in AROrders, d \in AnyDOrders, q \in AROrders}
AnyDNewParamInputs ==
  {[NoNew EXCEPT !.d = Some(v), !.keys = {"d"}] : v \in AnyDOrders}
  \cup {[NoNew EXCEPT !.p = Some(v), !.keys = {"p"}] : v \in AROrders}

InitAnyD ==
  /\ focus = "ARIMA"
  /\ \E ts \in SeriesInputs, params \in AnyDParamInputs :
       /\ arima = ARIMA_new(ts, params)
       /\ startedWithData = (Len(ts) > 0)
  /\ ar = IdleAR /\ ma = IdleMA /\ arma = IdleARMA
  /\ op = "new" /\ out = NoOut /\ nops = 0 /\ UtilIdle

AnyDUpdateParams ==
  /\ focus = "ARIMA" /\ CanMutate
  /\ \E np \in AnyDNewParamInputs : arima' = ARIMA_updateParams(arima, np)
  /\ Mutated("updateParams")
  /\ UNCHANGED <<utilVars, focus, startedWithData, ar, ma, arma>>

NextAnyD == ARIMAUpdateTimeSeries \/ AnyDUpdateParams \/ ARIMAForecast
SpecAnyD == InitAnyD /\ [][NextAnyD]_vars

(***************************************************************************)
(* The differencing functions of math.ts, called directly: the caller has  *)
(* a series and an order d, takes difference(data, d), and asks            *)
(* inverseDifferenceForecast to integrate a value f (the last difference   *)
(* when there is one) over a tail of the values preceding the last one.    *)
(***************************************************************************)
DataValues == {-1, 0, 2}
RECURSIVE DataInputsOfLen(_)
DataInputsOfLen(n) ==
  IF n = 0 THEN {<<>>}
  ELSE {Append(s, R(v)) : s \in DataInputsOfLen(n - 1), v \in DataValues}
DataInputs == UNION {DataInputsOfLen(n) : n \in 0..MaxData}
DInputs == -1..MaxD
\* the k values of data preceding its last one
Preceding(data, k) == SubSeq(data, Len(data) - k, Len(data) - 1)
TailInputs(data) ==
  IF Len(data) = 0 THEN {<<>>}
  ELSE {Preceding(data, k) : k \in 0..(Len(data) - 1)}

ForecastersIdle ==
  /\ ar = IdleAR /\ ma = IdleMA /\ arma = IdleARMA
  /\ arima = IdleARIMA /\ op = "new" /\ out = NoOut /\ nops = 0
  /\ startedWithData = FALSE

InitMath ==
  /\ focus = "math" /\ ForecastersIdle
  /\ buffer = IdleBuffer /\ bufferCall = NoBufferCall
  /\ \E data \in DataInputs, d \in DInputs :
       call = [NoCall EXCEPT !.data = data, !.d = d]

MathDifference ==
  /\ focus = "math" /\ call.fn = "none"
  /\ call' = [call EXCEPT
                !.fn = "difference",
                !.raised = differenceRaises(call.d),
                !.vals = IF differenceRaises(call.d) THEN <<>>
                         ELSE difference(call.data, call.d),
                !.diff = IF differenceRaises(call.d) THEN None
                         ELSE Some(difference(call.data, call.d))]
  /\ UNCHANGED <<forecasterVars, buffer, bufferCall>>

MathInverseDifferenceForecast ==
  /\ focus = "math" /\ call.fn \in {"none", "difference"}
  /\ \E tail \in TailInputs(call.data) :
       \E f \in IF Len(call.vals) > 0 THEN {call.vals[Len(call.vals)]}
                ELSE {R(1)} :
         call' = [call EXCEPT
                    !.fn = "inverseDifferenceForecast",
                    !.tail = tail, !.f = f,
                    !.raised = inverseDifferenceRaises(tail, call.d),
                    !.vals = IF inverseDifferenceRaises(tail, call.d) THEN <<>>
                             ELSE <<inverseDifferenceForecast(f, tail, call.d)>>]
  /\ UNCHANGED <<forecasterVars, buffer, bufferCall>>

\* estimateARCoefficients(data, p), the order p being the caller's call.d.
\* Orders above 2 are given at most p + 1 values of EstimateValues, which
\* keep the numerators and denominators of the elimination within TLC's
\* integers.
EstimateOrders == {0, 1, 2, 3}
EstimateValues == {R(0), R(2)}
MathEstimateARCoefficients ==
  /\ focus = "math" /\ call.fn = "none" /\ call.d >= 0
  /\ call.d \in EstimateOrders
  /\ call.d > 2 => /\ Len(call.data) <= call.d + 1
                   /\ \A i \in 1..Len(call.data) :
                        call.data[i] \in EstimateValues
  /\ call' = [call EXCEPT
                !.fn = "estimateARCoefficients",
                !.vals = estimateARCoefficients(call.data, call.d)]
  /\ UNCHANGED <<forecasterVars, buffer, bufferCall>>

NextMath ==
  MathDifference \/ MathInverseDifferenceForecast \/ MathEstimateARCoefficients
SpecMath == InitMath /\ [][NextMath]_vars

(***************************************************************************)
(* A SignalBuffer and its caller, who calls update(currentTime) with any   *)
(* time, later or earlier than the last one, and reset().                  *)
(***************************************************************************)
ConfigInputs ==
  [bufferAheadSeconds : {100, 200}, bufferBehindSeconds : {100, 150},
   tickDuration : {100}]
TimeInputs == {50 * k : k \in 0..MaxTime}

InitBuffer ==
  /\ focus = "buffer" /\ ForecastersIdle /\ call = NoCall
  /\ \E config \in ConfigInputs : buffer = SignalBuffer_new(config)
  /\ bufferCall = NoBufferCall

\* the times of the points held by b, and of those b1 holds beyond b: the
\* generator is called once for every point pushed
Ticks(b) == {b.data[i].t : i \in 1..Len(b.data)}
Generated(b, b1, fn, currentTime, dropped) ==
  [fn |-> fn, currentTime |-> currentTime, dropped |-> dropped,
   generated |-> bufferCall.generated \cup (Ticks(b1) \ Ticks(b)),
   twice |-> bufferCall.twice
               \cup (bufferCall.generated \cap (Ticks(b1) \ Ticks(b))),
   n |-> bufferCall.n + 1,
   updatesOnly |-> bufferCall.updatesOnly /\ fn = "update"]

BufferUpdate ==
  /\ focus = "buffer" /\ bufferCall.n < MaxCalls
  /\ \E currentTime \in TimeInputs :
       /\ buffer' = SignalBuffer_update(buffer, currentTime)
       /\ bufferCall' =
            Generated(buffer, SignalBuffer_generate(buffer, currentTime),
                      "update", currentTime,
                      Len(SignalBuffer_generate(buffer, currentTime).data)
                        - Len(buffer'.data))
  /\ UNCHANGED <<forecasterVars, call>>

\* the private method called on its own, as the class itself may
BufferGenerateAndAppend ==
  /\ focus = "buffer" /\ bufferCall.n < MaxCalls
  /\ \E startT \in {100 * k : k \in 0..(MaxTime \div 2)},
        endT \in TimeInputs :
       /\ buffer' = SignalBuffer_generateAndAppend(buffer, startT, endT)
       /\ bufferCall' = Generated(buffer, buffer', "generateAndAppend", startT, 0)
  /\ UNCHANGED <<forecasterVars, call>>

BufferReset ==
  /\ focus = "buffer" /\ bufferCall.n < MaxCalls
  /\ buffer' = SignalBuffer_reset(buffer)
  /\ bufferCall' = Generated(buffer, buffer, "reset", 0, 0)
  /\ UNCHANGED <<forecasterVars, call>>

NextBuffer == BufferUpdate \/ BufferGenerateAndAppend \/ BufferReset
SpecBuffer == InitBuffer /\ [][NextBuffer]_vars

(***************************************************************************)
(* The application's tick loop (App.tsx): every tick calls                 *)
(* buffer.update(newTime) and then, when the series is not empty,          *)
(* forecaster.updateTimeSeries(buffer.getTimeSeries()).  getTimeSeries     *)
(* returns the buffer's own TimeSeries object, and updateTimeSeries stores *)
(* the object it is given: from the first such call on (op =               *)
(* "updateTimeSeries") the forecaster's this.timeSeries is the object the  *)
(* buffer updates, so its data is the buffer's at every moment.            *)
(***************************************************************************)
\* the steps of newTime: 0.02 * playbackSpeed, for the speeds 0.5 and 1
TimeSteps == {50, 100}
\* generator.generateSeries from 0 on, n points one tick apart
InitialSeries(n) ==
  [i \in 1..n |-> [t |-> (i - 1) * 100, x |-> R(Generate((i - 1) * 100))]]
\* buffer.getTimeSeries(), the values as rationals
getTimeSeries(b) ==
  [i \in 1..Len(b.data) |-> [t |-> b.data[i].t, x |-> R(b.data[i].x)]]

InitTick ==
  /\ focus \in {"tick:MA", "tick:ARMA"}
  /\ ar = IdleAR /\ arima = IdleARIMA /\ op = "new" /\ out = NoOut /\ nops = 0
  /\ startedWithData = TRUE /\ call = NoCall
  /\ \E config \in ConfigInputs : buffer = SignalBuffer_new(config)
  /\ bufferCall = NoBufferCall
  /\ \E n \in {1, 2}, p \in AROrders, q \in {1, 2} :
       /\ ma = IF focus = "tick:MA"
               THEN MA_new(InitialSeries(n), q, None, None) ELSE IdleMA
       /\ arma = IF focus = "tick:ARMA"
                 THEN ARMA_new(InitialSeries(n),
                               [NoParams EXCEPT !.p = p, !.q = q])
                 ELSE IdleARMA

\* b1: the buffer after update(newTime)
TickForecaster(b1) ==
  /\ buffer' = b1
  /\ op' = IF Len(b1.data) > 0 THEN "updateTimeSeries" ELSE op
  /\ ma' = IF focus # "tick:MA" THEN ma
           ELSE IF Len(b1.data) = 0
           THEN (IF op = "new" THEN ma ELSE [ma EXCEPT !.ts = <<>>])
           ELSE MA_updateTimeSeries(
                  IF op = "new" THEN ma
                  ELSE [ma EXCEPT !.ts = getTimeSeries(b1)],
                  getTimeSeries(b1))
  /\ arma' = IF focus # "tick:ARMA" THEN arma
             ELSE IF Len(b1.data) = 0
             THEN (IF op = "new" THEN arma ELSE [arma EXCEPT !.ts = <<>>])
             ELSE ARMA_updateTimeSeries(
                    IF op = "new" THEN arma
                    ELSE [arma EXCEPT !.ts = getTimeSeries(b1)],
                    getTimeSeries(b1))
Tick ==
  /\ focus \in {"tick:MA", "tick:ARMA"} /\ bufferCall.n < MaxCalls
  /\ \E step \in TimeSteps :
       /\ TickForecaster(SignalBuffer_update(buffer,
                                             bufferCall.currentTime + step))
       /\ bufferCall' =
            Generated(buffer,
                      SignalBuffer_generate(buffer, bufferCall.currentTime + step),
                      "update", bufferCall.currentTime + step,
                      Len(SignalBuffer_generate(
                            buffer, bufferCall.currentTime + step).data)
                        - Len(buffer'.data))
  /\ UNCHANGED <<focus, ar, arima, out, nops, startedWithData, call>>

NextTick == Tick
SpecTick == InitTick /\ [][NextTick]_vars

(***************************************************************************)
(* Properties                                                              *)
(***************************************************************************)
\* C1: an MAForecaster constructed on a non-empty series holds exactly q
\* past errors after every later updateTimeSeries, updateParams or forecast
\* call, whatever q >= 0 and whatever initial errors array it was given.
C1_MAErrorsHaveLengthQ ==
  (focus = "MA" /\ startedWithData /\ op # "new") => Len(ma.errors) = ma.q

\* C2: an ARMAForecaster constructed on a non-empty series holds exactly q
\* past errors after construction and after every updateTimeSeries (to an
\* empty series too), updateParams and forecast call.
C2_ARMAErrorsHaveLengthQ ==
  (focus = "ARMA" /\ startedWithData) => Len(arma.errors) = arma.q
\* reached: errors re-sized by a change of q, after the series was emptied
C2_Witness ==
  /\ focus = "ARMA" /\ startedWithData /\ nops = 2 /\ op = "updateParams"
  /\ Len(arma.ts) = 0 /\ arma.q = 2 /\ Len(arma.errors) = 2

\* C3: forecast(t, horizon) leaves the error history of an initialized
\* MAForecaster (one built on, or holding, a non-empty series), of an
\* initialized ARMAForecaster (one built on a non-empty series) and of the
\* ARMA sub-model of an ARIMAForecaster as it was before the call, whatever
\* the horizon.
SubModelErrors == IF IsSome(arima.arma) THEN Get(arima.arma).errors ELSE <<>>
C3_ForecastKeepsErrors ==
  [][op' = "forecast" =>
       /\ (startedWithData \/ Len(ma.ts) > 0) => ma'.errors = ma.errors
       /\ startedWithData => arma'.errors = arma.errors
       /\ SubModelErrors' = SubModelErrors]_vars
\* reached: a two-step forecast of an MA(2) forecaster whose last error is
\* not zero, after an update
C3_Witness ==
  /\ focus = "MA" /\ startedWithData /\ op = "forecast" /\ nops = 1
  /\ out.h = 2 /\ ma.q = 2 /\ Len(ma.errors) = 2 /\ ma.errors[2] # Zero
  /\ Len(ma.coefficients) = 2

C5_ForecastLength ==
  op = "forecast" => (Len(out.vals) = out.h /\ ~out.raised)
\* reached: a two-step forecast of an ARIMAForecaster with d = 2 that has a
\* sub-model
C5_Witness ==
  /\ focus = "ARIMA" /\ op = "forecast" /\ IsSome(arima.arma) /\ arima.d = 2
  /\ out.h = 2 /\ Len(out.vals) = 2

\* C6: an ARIMAForecaster has no ARMA sub-model exactly when its raw series
\* has at most d points; otherwise it has one, whose held series is the
\* current differenced series.
C6_ARIMAStateMachine ==
  focus = "ARIMA" =>
    /\ ~IsSome(arima.arma) <=> Len(arima.ts) <= arima.d
    /\ IsSome(arima.arma) =>
         Xs(Get(arima.arma).ts) = difference(Xs(arima.ts), arima.d)
\* reached: the sub-model dropped by an update to a series of d points,
\* after a change of d
C6_Witness ==
  /\ focus = "ARIMA" /\ op = "updateTimeSeries" /\ nops = 2
  /\ arima.d = 2 /\ Len(arima.ts) = 2 /\ ~IsSome(arima.arma)

\* C7: after ARIMAForecaster.updateTimeSeries(S) that leaves a sub-model, no
\* AR or MA coefficients being pinned, the sub-model's series mean is
\* mean(difference(S, d)) and its AR coefficients are estimateARCoefficients
\* of the mean-centered difference(S, d) with order p.
DifferencedValues == difference(Xs(arima.ts), arima.d)
C7_ARIMAReestimates ==
  (/\ focus = "ARIMA" /\ op = "updateTimeSeries" /\ IsSome(arima.arma)
   /\ ~IsSome(arima.par) /\ ~IsSome(arima.pma)) =>
    /\ Get(arima.arma).seriesMean = mean(DifferencedValues)
    /\ Get(arima.arma).arCoefficients =
         estimateARCoefficients(
           Centered(DifferencedValues, mean(DifferencedValues)), arima.p)

\* C8: a coefficient array supplied to an AR, MA or ARMA forecaster is the
\* stored coefficient vector of that component, whatever its length.
C8_PinnedStoredVerbatim ==
  /\ (focus = "AR" /\ IsSome(ar.pcoef)) => ar.coefficients = Get(ar.pcoef)
  /\ (focus = "MA" /\ IsSome(ma.pcoef)) => ma.coefficients = Get(ma.pcoef)
  /\ (focus = "ARMA" /\ IsSome(arma.par)) =>
       arma.arCoefficients = Get(arma.par)
  /\ (focus = "ARMA" /\ IsSome(arma.pma)) =>
       arma.maCoefficients = Get(arma.pma)

\* C9: an ARIMAForecaster with d = 0 and an ARMAForecaster built from the
\* same series, p, q, coefficient arrays and initial errors, and given the
\* same updateTimeSeries calls, return the same forecast for every horizon.
C9_ZeroDForecastsAsARMA ==
  (focus = "ARIMA|ARMA" /\ op = "forecast") => out.vals = out.other

\* C10: an ARMAForecaster with p = 0 and an MAForecaster built from the same
\* series, q, MA coefficients and initial errors, and given the same
\* updateTimeSeries calls, return the same forecast for every horizon.
C10_ZeroPForecastsAsMA ==
  (focus = "ARMA|MA" /\ op = "forecast") => out.vals = out.other

\* the binomial coefficient, by Pascal's rule
RECURSIVE Binomial(_, _)
Binomial(n, k) ==
  IF k = 0 \/ k = n THEN 1
  ELSE IF k < 0 \/ k > n THEN 0
  ELSE Binomial(n - 1, k - 1) + Binomial(n - 1, k)

\* sum over k = 1..d of (-1)^(k+1) C(d, k) y[Len(y) + 1 - k]
RECURSIVE Integration(_, _, _)
Integration(y, d, k) ==
  IF k > d THEN Zero
  ELSE RAdd(RMul(R((IF k % 2 = 1 THEN 1 ELSE -1) * Binomial(d, k)),
                 y[Len(y) + 1 - k]),
            Integration(y, d, k + 1))

\* the series y extended by the steps F[i], F[i + 1], .. integrated d times
RECURSIVE Integrated(_, _, _, _)
Integrated(F, y, d, i) ==
  IF i > Len(F) THEN y
  ELSE Integrated(F, Append(y, RAdd(F[i], Integration(y, d, 1))), d, i + 1)

IsRamp(y) == \A i \in 2..(Len(y) - 1) : RSub(y[i + 1], y[i]) = RSub(y[i], y[i - 1])
RampFrom(y, horizon) ==
  [i \in 1..horizon |->
     RAdd(y[Len(y)], RMul(R(i), RSub(y[Len(y)], y[Len(y) - 1])))]

\* C11: a Ready ARIMAForecaster with d > 0 forecasts, at step i, the inner
\* ARMA forecast F_i of the differenced series plus the sum over k = 1..d of
\* (-1)^(k+1) C(d, k) y[n + i - k], y being the raw series extended by the
\* forecasts already emitted; ARIMA(0, d, 0) on an arithmetic ramp continues
\* the ramp.
C11_ARIMAReconstruction ==
  (focus = "ARIMA" /\ op = "forecast" /\ IsSome(arima.arma) /\ arima.d > 0) =>
    /\ ~out.raised
    /\ out.vals =
         SubSeq(Integrated(ARMA_forecast(Get(arima.arma), out.h).vals,
                           Xs(arima.ts), arima.d, 1),
                Len(arima.ts) + 1, Len(arima.ts) + out.h)
    /\ (arima.p = 0 /\ arima.q = 0 /\ IsRamp(Xs(arima.ts))) =>
         out.vals = RampFrom(Xs(arima.ts), out.h)
C11_Witness ==
  /\ focus = "ARIMA" /\ op = "forecast" /\ IsSome(arima.arma)
  /\ arima.d = 2 /\ arima.p = 1 /\ out.h = 2 /\ Len(out.vals) = 2
  /\ out.vals[1] # out.vals[2] /\ ~IsRamp(Xs(arima.ts))

\* C12: for every d in 0..3 and every sequence x longer than d,
\* inverseDifferenceForecast(last element of difference(x, d), the d
\* elements of x preceding its last one, d) is the last element of x.
C12_DifferencingRoundTrip ==
  (/\ focus = "math" /\ call.fn = "inverseDifferenceForecast"
   /\ call.d \in 0..3 /\ Len(call.data) > call.d
   /\ IsSome(call.diff) /\ call.tail = Preceding(call.data, call.d)) =>
    /\ Len(Get(call.diff)) > 0
    /\ call.f = Get(call.diff)[Len(Get(call.diff))]
    /\ ~call.raised
    /\ call.vals = <<call.data[Len(call.data)]>>
C12_Witness ==
  /\ focus = "math" /\ call.fn = "inverseDifferenceForecast"
  /\ call.d = 3 /\ Len(call.data) = 4 /\ IsSome(call.diff) /\ Len(call.tail) = 3
  /\ call.f # Zero /\ call.vals = <<call.data[4]>> /\ call.data[4] # call.data[3]

\* sum over k = 1..p of phi_k c[n + 1 - k], n the length of c
ARTerm(phi, c) ==
  Sum([k \in 1..Len(phi) |-> RMul(phi[k], c[Len(c) + 1 - k])])
\* sum over j = 1..q of theta_j e[i - 1 - j] at step i = 1, 2, ..: e[-m] is
\* the m-th most recent stored error E[m], and e[m] = 0 for m >= 0
MATerm(theta, E, i) ==
  Sum([j \in 1..Len(theta) |->
         IF j >= i /\ j - i + 1 <= Len(E) THEN RMul(theta[j], E[j - i + 1])
         ELSE Zero])
\* c extended by steps i..h of the recursion
RECURSIVE Recursion(_, _, _, _, _, _)
Recursion(phi, theta, E, c, i, h) ==
  IF i > h THEN c
  ELSE Recursion(phi, theta, E,
                 Append(c, RAdd(ARTerm(phi, c), MATerm(theta, E, i))),
                 i + 1, h)
\* steps 1..h of the recursion started from the history c, plus mu
RecursionSteps(phi, theta, E, c, mu, h) ==
  [i \in 1..h |-> RAdd(mu, Recursion(phi, theta, E, c, 1, h)[Len(c) + i])]

\* what C13 states of the last forecast call
ARMARecursionHolds ==
  out.vals =
    RecursionSteps(arma.arCoefficients, arma.maCoefficients,
                   Reverse(arma.errors),
                   PadLeft(Centered(Xs(arma.ts), arma.seriesMean), arma.p),
                   arma.seriesMean, out.h)
ARMALengthsMatch ==
  Len(arma.arCoefficients) = arma.p /\ Len(arma.maCoefficients) = arma.q

\* C13 as stated: when the AR and MA coefficient vectors have lengths p and
\* q, step i of ARMAForecaster.forecast is seriesMean + sum_k phi_k
\* c[n + i - k] + sum_j theta_j e[i - j]: c the mean-centered series
\* (left-padded with 0 up to p) extended by the centered earlier steps, e the
\* stored errors most-recent-first, future errors being 0.
C13_ARMARecursion ==
  (focus = "ARMA" /\ op = "forecast" /\ ARMALengthsMatch) => ARMARecursionHolds

\* C13 amended: the recursion gives the forecast of a non-empty series (or
\* of any series when p = q = 0); on an empty series with p > 0 or q > 0 the
\* forecast is horizon zeros, whatever the stored errors are.
C13_ARMARecursionOnData ==
  (focus = "ARMA" /\ op = "forecast" /\ ARMALengthsMatch) =>
    IF Len(arma.ts) = 0 /\ (arma.p > 0 \/ arma.q > 0)
    THEN out.vals = Fill(out.h, Zero)
    ELSE ARMARecursionHolds
C13_Witness ==
  /\ focus = "ARMA" /\ op = "forecast" /\ arma.p = 1 /\ arma.q = 2
  /\ Len(arma.arCoefficients) = 1 /\ Len(arma.maCoefficients) = 2
  /\ arma.arCoefficients[1] # Zero /\ arma.maCoefficients[2] # Zero
  /\ Len(arma.errors) = 2 /\ arma.errors[1] # Zero /\ Len(arma.ts) = 3
  /\ out.h = 2 /\ Len(out.vals) = 2 /\ out.vals[2] # arma.seriesMean

\* C14: for q > 0 and a coefficient vector of length q, step i = 0, 1, .. of
\* MAForecaster.forecast is seriesMean + sum_{j = i+1..q} theta_j
\* e_{t-(j-i)}, e_{t-1}, e_{t-2}, .. being the stored errors
\* most-recent-first; every step i >= q is seriesMean, and so is every step
\* when q = 0.
C14_MAForecastZeroFutureErrors ==
  (focus = "MA" /\ op = "forecast") =>
    /\ ma.q = 0 => out.vals = Fill(out.h, ma.seriesMean)
    /\ (ma.q > 0 /\ Len(ma.coefficients) = ma.q) =>
         /\ out.vals =
              [i \in 1..out.h |->
                 RAdd(ma.seriesMean,
                      MATerm(ma.coefficients, Reverse(ma.errors), i))]
         /\ \A i \in 1..out.h : i > ma.q => out.vals[i] = ma.seriesMean
C14_Witness ==
  /\ focus = "MA" /\ op = "forecast" /\ ma.q = 2 /\ Len(ma.coefficients) = 2
  /\ ma.coefficients[2] # Zero /\ Len(ma.errors) = 2 /\ ma.errors[1] # Zero
  /\ ma.errors[2] # Zero /\ out.h = 2 /\ Len(out.vals) = 2
  /\ out.vals[1] # out.vals[2] /\ out.vals[2] # ma.seriesMean

\* C15: ARForecaster.forecast returns horizon zeros when the series has
\* fewer than p points or the pinned coefficient vector's length differs
\* from p; otherwise step i is sum_{k = 1..p} phi_k y[n + i - k], y being the
\* raw series extended by the earlier steps.
C15_ARForecastContract ==
  (focus = "AR" /\ op = "forecast") =>
    IF Len(ar.ts) < ar.p \/ (IsSome(ar.pcoef) /\ Len(Get(ar.pcoef)) # ar.p)
    THEN out.vals = Fill(out.h, Zero)
    ELSE /\ Len(ar.coefficients) = ar.p
         /\ out.vals = RecursionSteps(ar.coefficients, <<>>, <<>>, Xs(ar.ts),
                                      Zero, out.h)
C15_Witness ==
  /\ focus = "AR" /\ op = "forecast" /\ ar.p = 2 /\ Len(ar.ts) = 3
  /\ Len(ar.coefficients) = 2 /\ ar.coefficients[2] # Zero
  /\ out.h = 2 /\ Len(out.vals) = 2 /\ out.vals[1] # out.vals[2]
  /\ out.vals[2] # Zero

\* C16: for an ARForecaster with no pinned coefficients, after every
\* updateTimeSeries and after every updateParams that changes p, the stored
\* coefficients are estimateARCoefficients(values of the current series,
\* current p), which is p zeros when the series has at most p points; they
\* have length p.
Reestimating ==
  /\ focus = "AR" /\ nops' = nops + 1 /\ ~IsSome(ar'.pcoef)
  /\ op' = "updateTimeSeries" \/ (op' = "updateParams" /\ ar'.p # ar.p)
C16_ARReestimates ==
  [][Reestimating =>
       /\ ar'.coefficients = estimateARCoefficients(Xs(ar'.ts), ar'.p)
       /\ Len(ar'.coefficients) = ar'.p
       /\ Len(ar'.ts) <= ar'.p => ar'.coefficients = Fill(ar'.p, Zero)]_vars
C16_Witness ==
  /\ focus = "AR" /\ op = "updateTimeSeries" /\ nops = 2
  /\ ~IsSome(ar.pcoef) /\ ar.p = 2
  /\ Len(ar.ts) = 3 /\ Len(ar.coefficients) = 2 /\ ar.coefficients[2] # Zero

\* C17: an ARIMAForecaster without an ARMA sub-model forecasts horizon
\* copies of the mean of its raw series, or horizon zeros when the raw series
\* is empty, and raises nothing.
C17_UninitializedForecast ==
  (focus = "ARIMA" /\ op = "forecast" /\ ~IsSome(arima.arma)) =>
    /\ ~out.raised
    /\ out.vals =
         Fill(out.h, IF Len(arima.ts) = 0 THEN Zero
                     ELSE RDiv(Sum(Xs(arima.ts)), R(Len(arima.ts))))
C17_Witness ==
  /\ focus = "ARIMA" /\ op = "forecast" /\ ~IsSome(arima.arma)
  /\ Len(arima.ts) = 2 /\ arima.d = 2 /\ out.h = 2
  /\ out.vals = <<Q(5, 2), Q(5, 2)>>

\* C18: no mutator leaves an ARIMAForecaster outside its defined states.
\* The constructor, updateTimeSeries and updateParams raise nothing, whatever
\* differencing order they are given, so after each of them the forecaster
\* is Uninitialized or Ready with d >= 0, and a forecast made afterwards
\* does not fail.
C18_MutatorsKeepDefinedStates ==
  focus = "ARIMA" =>
    /\ arima.d >= 0
    /\ op = "forecast" => ~out.raised

\* C19: difference and inverseDifferenceForecast raise for every d < 0;
\* inverseDifferenceForecast raises for d >= 1 when the tail has fewer than d
\* values, and for d = 0 returns f whatever the tail is; difference of a
\* series of at most d values (d >= 1) is empty and raises nothing.
C19_DifferencingErrors ==
  /\ (focus = "math" /\ call.fn = "difference") =>
       /\ call.raised <=> call.d < 0
       /\ (call.d >= 1 /\ Len(call.data) <= call.d) => call.vals = <<>>
  /\ (focus = "math" /\ call.fn = "inverseDifferenceForecast") =>
       /\ call.d < 0 => call.raised
       /\ (call.d >= 1 /\ Len(call.tail) < call.d) => call.raised
       /\ call.d = 0 => (~call.raised /\ call.vals = <<call.f>>)
C19_Witness ==
  /\ focus = "math" /\ call.fn = "inverseDifferenceForecast" /\ call.d = 2
  /\ Len(call.tail) = 1 /\ Len(call.data) = 2 /\ call.diff = Some(<<>>)
  /\ call.raised

\* C20: after every update(currentTime), whatever update and reset calls
\* came before, every retained point has t >= currentTime -
\* bufferBehindSeconds, up to the tolerance tickDuration / 100.
C20_RetentionWindow ==
  (focus = "buffer" /\ bufferCall.fn = "update") =>
    \A i \in 1..Len(buffer.data) :
      buffer.data[i].t >=
        bufferCall.currentTime - buffer.bufferBehindSeconds
          - buffer.tickDuration \div 100
C20_Witness ==
  /\ focus = "buffer" /\ bufferCall.fn = "update" /\ bufferCall.dropped = 2
  /\ Len(buffer.data) = 3 /\ buffer.bufferBehindSeconds = 150
  /\ buffer.data[1].t = bufferCall.currentTime - 150

StrictlyAscending ==
  \A i \in 1..(Len(buffer.data) - 1) : buffer.data[i].t < buffer.data[i + 1].t

IsPrefix(s, t) == Len(s) <= Len(t) /\ SubSeq(t, 1, Len(s)) = s
\* sum over j = 1..q of theta_j e_{t-j}: e_{t-j} is the j-th most recent entry
\* of the history E, and 0 when E has no such entry
PastErrorTerm(theta, E, q) ==
  Sum([j \in 1..q |->
         IF j <= Len(theta) /\ j <= Len(E)
         THEN RMul(theta[j], E[Len(E) + 1 - j]) ELSE Zero])
Evicted(E, q) == IF Len(E) > q THEN Tail(E) ELSE E
\* the history E after the points c[i], c[i + 1], .. of the centered series
RECURSIVE MAReplayed(_, _, _, _, _)
MAReplayed(E, theta, c, q, i) ==
  IF i > Len(c) THEN E
  ELSE MAReplayed(Evicted(Append(E, RSub(c[i], PastErrorTerm(theta, E, q))), q),
                  theta, c, q, i + 1)

\* C22: when MAForecaster.updateTimeSeries receives a series extending the
\* held one (of any length) by n >= 1 points, each new value x in turn gives
\* the residual (x - mean of the new series) - sum_j theta_j e_{t-j}, taken
\* from the history as it stood before that point; the residual is appended
\* and the oldest entry evicted when the history is longer than q.
C22_MAResidualReplay ==
  [][(/\ focus = "MA" /\ op' = "updateTimeSeries" /\ nops' = nops + 1
      /\ Len(ma'.ts) > Len(ma.ts) /\ IsPrefix(ma.ts, ma'.ts)) =>
       ma'.errors =
         MAReplayed(ma.errors, ma.coefficients,
                    Centered(Xs(ma'.ts), mean(Xs(ma'.ts))), ma.q,
                    Len(ma.ts) + 1)]_vars

\* sum over k = 1..p of phi_k c[i - k]
PastValueTerm(phi, c, p, i) ==
  Sum([k \in 1..p |-> IF k <= Len(phi) THEN RMul(phi[k], c[i - k]) ELSE Zero])
\* the history E after the points c[i], c[i + 1], .. of the centered series
RECURSIVE ARMAReplayed(_, _, _, _, _, _, _)
ARMAReplayed(E, phi, theta, c, p, q, i) ==
  IF i > Len(c) THEN E
  ELSE ARMAReplayed(
         Evicted(Append(E, IF i - 1 < p THEN c[i]
                           ELSE RSub(c[i], RAdd(PastValueTerm(phi, c, p, i),
                                                PastErrorTerm(theta, E, q)))),
                 q),
         phi, theta, c, p, q, i + 1)

\* what C23 states of the step just taken
ARMAReplayHolds ==
  arma'.errors =
    ARMAReplayed(arma.errors, arma.arCoefficients, arma.maCoefficients,
                 Centered(Xs(arma'.ts), mean(Xs(arma'.ts))), arma.p, arma.q,
                 Len(arma.ts) + 1)
ARMAExtends ==
  /\ focus = "ARMA" /\ op' = "updateTimeSeries" /\ nops' = nops + 1
  /\ arma.q > 0 /\ Len(arma'.ts) > Len(arma.ts) /\ IsPrefix(arma.ts, arma'.ts)

\* C23: when ARMAForecaster.updateTimeSeries (q > 0) receives a series
\* extending the held one by n >= 1 points, each new index i in turn gives
\* the residual c[i] - (sum_k phi_k c[i - k] + sum_j theta_j e_{t-j}), c the
\* series centered on the new mean and e the history as of before point i,
\* or c[i] itself when fewer than p points precede i; the residual is
\* appended and the oldest entry evicted when the history is longer than q.
C23_ARMAResidualReplay == [][ARMAExtends => ARMAReplayHolds]_vars

\* C24: the differenced series of an ARIMAForecaster always agrees with its
\* raw series: in every state reached by updateTimeSeries and updateParams
\* with d >= 0, the stored differenced series has max(0, n - d) points, and
\* its point i has the value difference(raw, d)[i] and the timestamp of the
\* raw point i + d.
C24_DifferencedConsistent ==
  (focus = "ARIMA" /\ arima.d >= 0) =>
    /\ Len(arima.diff) = Max(0, Len(arima.ts) - arima.d)
    /\ \A i \in 1..Len(arima.diff) :
         /\ arima.diff[i].x = difference(Xs(arima.ts), arima.d)[i]
         /\ arima.diff[i].t = arima.ts[i + arima.d].t
C24_Witness ==
  /\ focus = "ARIMA" /\ op = "updateParams" /\ nops = 2
  /\ arima.d = 2 /\ Len(arima.ts) = 3
  /\ arima.diff = <<[t |-> arima.ts[3].t,
                     x |-> RAdd(RSub(arima.ts[3].x,
                                     RMul(R(2), arima.ts[2].x)),
                                arima.ts[1].x)]>>

\* updateParams({errors: E})
ErrorsOnly(E) == [NoNew EXCEPT !.errors = Some(E), !.keys = {"errors"}]
\* E left-padded with zeros to length q, or its last q entries
FittedTo(E, q) ==
  [i \in 1..q |-> IF i + Len(E) <= q THEN Zero ELSE E[i + Len(E) - q]]

\* C25: ARMAForecaster.updateParams({errors: E}), which changes neither p,
\* q nor a coefficient array, leaves arCoefficients, maCoefficients and
\* seriesMean as they were and sets the error history to E left-padded with
\* zeros to length q, or to the last q entries of E when E is longer (to the
\* empty history when q = 0).
C25_ErrorsOnlyUpdate ==
  [][\A E \in ErrInputs :
       (/\ focus = "ARMA" /\ op' = "updateParams" /\ nops' = nops + 1
        /\ arma' = ARMA_updateParams(arma, ErrorsOnly(E))) =>
         /\ arma'.arCoefficients = arma.arCoefficients
         /\ arma'.maCoefficients = arma.maCoefficients
         /\ arma'.seriesMean = arma.seriesMean
         /\ arma'.p = arma.p /\ arma'.q = arma.q
         /\ arma'.errors = FittedTo(E, arma.q)]_vars
C25_Witness ==
  /\ focus = "ARMA" /\ op = "updateParams" /\ arma.q = 2 /\ arma.alias
  /\ arma.errors = <<Zero, Q(1, 5)>> /\ arma.perr = Some(<<Zero, Q(1, 5)>>)
  /\ Len(arma.ts) > 0

\* the matrix A without its row i and column j
Minor(A, i, j) ==
  [r \in 1..(Len(A) - 1) |->
     [c \in 1..(Len(A) - 1) |->
        A[IF r < i THEN r ELSE r + 1][IF c < j THEN c ELSE c + 1]]]
\* the determinant of A, expanded along its first row
RECURSIVE Det(_)
Det(A) ==
  IF Len(A) = 0 THEN R(1)
  ELSE Sum([j \in 1..Len(A) |->
              RMul(IF j % 2 = 1 THEN A[1][j] ELSE RNeg(A[1][j]),
                   Det(Minor(A, 1, j)))])
\* the Yule-Walker matrix of data for order p
YuleWalkerMatrix(data, p) ==
  [i \in 1..p |-> [j \in 1..p |-> autocovariance(data, Abs(i - j))]]

\* C26: estimateARCoefficients(data, p) raises nothing and returns exactly p
\* entries for every data and every p >= 0; the entries are all zero when
\* data has at most p values and when the Yule-Walker matrix is singular
\* (a constant series, for instance), for p = 1, p = 2 and p > 2 alike.
C26_EstimateShape ==
  (focus = "math" /\ call.fn = "estimateARCoefficients") =>
    /\ Len(call.vals) = call.d
    /\ (\/ Len(call.data) <= call.d
        \/ Det(YuleWalkerMatrix(call.data, call.d)) = Zero) =>
         call.vals = Fill(call.d, Zero)
C26_Witness ==
  /\ focus = "math" /\ call.fn = "estimateARCoefficients" /\ call.d = 3
  /\ call.data = <<R(2), R(2), R(2), R(2)>>
  /\ call.vals = <<Zero, Zero, Zero>>

\* o: the forecast made, again: the same call made on the forecaster as the
\* first one left it, shorter: the call with one step less made instead
ForecastsAgree(o, again, shorter) ==
  /\ again.vals = o.vals /\ again.raised = o.raised
  /\ ~o.raised => Len(o.vals) = o.h
  /\ (o.h >= 1 /\ ~o.raised) =>
       /\ ~shorter.raised
       /\ shorter.vals = SubSeq(o.vals, 1, o.h - 1)
\* after a forecast that left the forecaster as it was (out.touched is
\* false), the forecaster is still the one the forecast was made on
AfterUntouched ==
  (op = "forecast" /\ ~out.touched) =>
    /\ focus = "AR" =>
         ForecastsAgree(out, AR_forecast(ar, out.h), AR_forecast(ar, out.h - 1))
    /\ focus = "MA" =>
         ForecastsAgree(out, MA_forecast(ma, out.h), MA_forecast(ma, out.h - 1))
    /\ focus = "ARMA" =>
         ForecastsAgree(out, ARMA_forecast(arma, out.h),
                        ARMA_forecast(arma, out.h - 1))
    /\ focus = "ARIMA" =>
         ForecastsAgree(out, ARIMA_forecast(arima, out.h),
                        ARIMA_forecast(arima, out.h - 1))
\* a forecast that changed the forecaster: the second call is made on the
\* forecaster it left, the shorter one on the forecaster it found
Touching ==
  (op' = "forecast" /\ nops' = nops /\ out'.touched) =>
    /\ focus = "AR" =>
         ForecastsAgree(out', AR_forecast(ar', out'.h),
                        AR_forecast(ar, out'.h - 1))
    /\ focus = "MA" =>
         ForecastsAgree(out', MA_forecast(ma', out'.h),
                        MA_forecast(ma, out'.h - 1))
    /\ focus = "ARMA" =>
         ForecastsAgree(out', ARMA_forecast(arma', out'.h),
                        ARMA_forecast(arma, out'.h - 1))
    /\ focus = "ARIMA" =>
         ForecastsAgree(out', ARIMA_forecast(arima', out'.h),
                        ARIMA_forecast(arima, out'.h - 1))

\* C27: forecasts are repeatable and prefix-consistent, for the AR, MA, ARMA
\* and ARIMA forecasters in every reachable state: a second forecast call
\* with the same horizon and no mutator in between returns the same values,
\* and forecast(h) returns the first h values of forecast(h + 1).
C27_ForecastsRepeatable == []AfterUntouched /\ [][Touching]_vars
C27_Witness ==
  /\ focus = "MA" /\ op = "forecast" /\ out.touched /\ out.h = 2
  /\ Len(out.vals) = 2 /\ out.vals[1] # out.vals[2]

\* the contents of the array the caller passed as params.errors, if any
CallerErrors ==
  IF focus = "MA" THEN ma.perr
  ELSE IF focus = "ARMA" THEN arma.perr
  ELSE IF focus = "ARIMA" THEN arima.perr
  ELSE None

\* C28: the caller's errors array is never modified.  An array passed as
\* params.errors to the constructor or to updateParams of an MA, ARMA or
\* ARIMA forecaster has the same contents after any later updateTimeSeries,
\* updateParams or forecast (the error history is a separate copy): a call
\* leaves the array as it was, unless it is an updateParams that replaces
\* it by another array of the caller, which then has the contents given.
C28_CallerErrorsKept ==
  [][/\ op' \in {"updateTimeSeries", "forecast"} => CallerErrors' = CallerErrors
     /\ op' = "updateParams" =>
          CallerErrors' \in {CallerErrors, None} \cup {Some(E) : E \in ErrInputs}
    ]_vars

\* the tick found the forecaster holding the buffer's series, which the
\* update then let grow at its end (nothing trimmed)
GrowingTick ==
  /\ focus \in {"tick:MA", "tick:ARMA"} /\ op = "updateTimeSeries"
  /\ bufferCall'.n = bufferCall.n + 1
  /\ Len(buffer'.data) > Len(buffer.data)
  /\ IsPrefix(buffer.data, buffer'.data)

\* C29: the samples the SignalBuffer appends reach the model.  In the tick
\* loop (buffer.update(newTime), then
\* forecaster.updateTimeSeries(buffer.getTimeSeries())), every tick on which
\* the buffer's series grows by k points makes an MA or ARMA forecaster
\* append k residuals: its error history after the tick is the one before,
\* replayed over the k new points.
C29_SamplesReachModel ==
  [][GrowingTick =>
       /\ focus = "tick:MA" =>
            ma'.errors =
              MAReplayed(ma.errors, ma.coefficients,
                         Centered(Xs(getTimeSeries(buffer')),
                                  mean(Xs(getTimeSeries(buffer')))),
                         ma.q, Len(buffer.data) + 1)
       /\ focus = "tick:ARMA" =>
            arma'.errors =
              ARMAReplayed(arma.errors, arma.arCoefficients,
                           arma.maCoefficients,
                           Centered(Xs(getTimeSeries(buffer')),
                                    mean(Xs(getTimeSeries(buffer')))),
                           arma.p, arma.q, Len(buffer.data) + 1)]_vars

\* C30: ARIMAForecaster.forecast never raises InsufficientHistory.  In
\* every Ready state reached by updateTimeSeries and updateParams with
\* d >= 1, the tail given to inverseDifferenceForecast has exactly d
\* entries at every forecast step, the first one being the last d raw values
\* in chronological order, so that no forecast raises.
C30_TailHasDEntries ==
  (focus = "ARIMA" /\ IsSome(arima.arma) /\ arima.d >= 1) =>
    /\ Len(arima.ts) >= arima.d
    /\ ARIMA_startTail(arima) =
         SubSeq(Xs(arima.ts), Len(arima.ts) - arima.d + 1, Len(arima.ts))
    /\ \A h \in Horizons :
         /\ ~ARIMA_forecast(arima, h).raised
         /\ Len(ARIMA_forecast(arima, h).vals) = h
    /\ op = "forecast" => ~out.raised
C30_Witness ==
  /\ focus = "ARIMA" /\ op = "forecast" /\ nops = 2 /\ IsSome(arima.arma)
  /\ arima.d = 2 /\ Len(arima.ts) = 3 /\ out.h = 2 /\ ~out.raised
  /\ ARIMA_startTail(arima) = <<arima.ts[2].x, arima.ts[3].x>>
  /\ arima.ts[2].x # arima.ts[3].x /\ Len(out.vals) = 2

====
